---- MODULE Spec2Model ----
(***************************************************************************)
(* A model of juker, a server for the Jupyter kernel wire protocol.        *)
(*                                                                         *)
(* The repository holds two server loops:                                  *)
(*   - JuServer::run (server.rs), one task that waits on a set of pending  *)
(*     futures: a shell receive, a control receive and the evaluation of   *)
(*     an execute_request ("fan-in");                                      *)
(*   - JuShellProcessor::run (shell_processor.rs), the shell task of a     *)
(*     server whose control loop runs as a second task and stops the       *)
(*     processor through a tokio Notify ("tasks").                         *)
(* The variable arch says which of the two a behaviour is about.           *)
(*                                                                         *)
(* Strings are sequences of one-character strings, so that str::replace    *)
(* and str::starts_with are computed. A byte buffer (a frame of a ZeroMQ   *)
(* multipart message) is a sequence of tokens: a raw byte string, or the   *)
(* lexical tokens of a JSON text.                                          *)
(***************************************************************************)
EXTENDS Integers, Sequences, FiniteSets, TLC

(***************************************************************************)
(* Strings.                                                                *)
(***************************************************************************)
Alphabet ==
    <<" ", "(", ")", "+", "-", ".", "/", "0", "1", "2", "3", "4", "5", "6", "7", "8", "9", ":",
      "<", ">", "A", "D", "E", "G", "I", "J", "K", "M", "R", "S", "T", "_", "a", "b", "c", "d",
      "e", "f", "g", "h", "i", "j", "k", "l", "m", "n", "o", "p", "q", "r", "s", "t", "u", "v",
      "w", "x", "y", "|">>

s_msg_id == <<"m", "s", "g", "_", "i", "d">>
s_username == <<"u", "s", "e", "r", "n", "a", "m", "e">>
s_session == <<"s", "e", "s", "s", "i", "o", "n">>
s_msg_type == <<"m", "s", "g", "_", "t", "y", "p", "e">>
s_version == <<"v", "e", "r", "s", "i", "o", "n">>
s_date == <<"d", "a", "t", "e">>
s_kernel == <<"k", "e", "r", "n", "e", "l">>
s_v5_3 == <<"5", ".", "3">>
s_sess == <<"s", "e", "s", "s">>
s_now == <<"n", "o", "w">>
s_client == <<"c", "l", "i", "e", "n", "t">>
s_id == <<"i", "d">>
s_kernel_info_request ==
    <<"k", "e", "r", "n", "e", "l", "_", "i", "n", "f", "o", "_", "r", "e", "q", "u", "e", "s",
      "t">>
s_is_complete_request ==
    <<"i", "s", "_", "c", "o", "m", "p", "l", "e", "t", "e", "_", "r", "e", "q", "u", "e", "s",
      "t">>
s_execute_request == <<"e", "x", "e", "c", "u", "t", "e", "_", "r", "e", "q", "u", "e", "s", "t">>
s_shutdown_request ==
    <<"s", "h", "u", "t", "d", "o", "w", "n", "_", "r", "e", "q", "u", "e", "s", "t">>
s_shutdown_reply ==
    <<"s", "h", "u", "t", "d", "o", "w", "n", "_", "r", "e", "p", "l", "y">>
s_execute_reply == <<"e", "x", "e", "c", "u", "t", "e", "_", "r", "e", "p", "l", "y">>
s_comm_info_request ==
    <<"c", "o", "m", "m", "_", "i", "n", "f", "o", "_", "r", "e", "q", "u", "e", "s", "t">>
s_interrupt_request ==
    <<"i", "n", "t", "e", "r", "r", "u", "p", "t", "_", "r", "e", "q", "u", "e", "s", "t">>
s_status == <<"s", "t", "a", "t", "u", "s">>
s_execute_input == <<"e", "x", "e", "c", "u", "t", "e", "_", "i", "n", "p", "u", "t">>
s_execute_result == <<"e", "x", "e", "c", "u", "t", "e", "_", "r", "e", "s", "u", "l", "t">>
s_error == <<"e", "r", "r", "o", "r">>
s_suffix_request == <<"_", "r", "e", "q", "u", "e", "s", "t">>
s_suffix_reply == <<"_", "r", "e", "p", "l", "y">>
s_code == <<"c", "o", "d", "e">>
s_restart == <<"r", "e", "s", "t", "a", "r", "t">>
s_execution_count == <<"e", "x", "e", "c", "u", "t", "i", "o", "n", "_", "c", "o", "u", "n", "t">>
s_execution_state == <<"e", "x", "e", "c", "u", "t", "i", "o", "n", "_", "s", "t", "a", "t", "e">>
s_ename == <<"e", "n", "a", "m", "e">>
s_evalue == <<"e", "v", "a", "l", "u", "e">>
s_traceback == <<"t", "r", "a", "c", "e", "b", "a", "c", "k">>
s_data == <<"d", "a", "t", "a">>
s_metadata == <<"m", "e", "t", "a", "d", "a", "t", "a">>
s_protocol_version ==
    <<"p", "r", "o", "t", "o", "c", "o", "l", "_", "v", "e", "r", "s", "i", "o", "n">>
s_implementation == <<"i", "m", "p", "l", "e", "m", "e", "n", "t", "a", "t", "i", "o", "n">>
s_implementation_version ==
    <<"i", "m", "p", "l", "e", "m", "e", "n", "t", "a", "t", "i", "o", "n", "_", "v", "e", "r",
      "s", "i", "o", "n">>
s_language_info == <<"l", "a", "n", "g", "u", "a", "g", "e", "_", "i", "n", "f", "o">>
s_name == <<"n", "a", "m", "e">>
s_mimetype == <<"m", "i", "m", "e", "t", "y", "p", "e">>
s_file_extension == <<"f", "i", "l", "e", "_", "e", "x", "t", "e", "n", "s", "i", "o", "n">>
s_banner == <<"b", "a", "n", "n", "e", "r">>
s_help_links == <<"h", "e", "l", "p", "_", "l", "i", "n", "k", "s">>
s_text == <<"t", "e", "x", "t">>
s_url == <<"u", "r", "l">>
s_text_plain == <<"t", "e", "x", "t", "/", "p", "l", "a", "i", "n">>
s_starting == <<"s", "t", "a", "r", "t", "i", "n", "g">>
s_idle == <<"i", "d", "l", "e">>
s_busy == <<"b", "u", "s", "y">>
s_ok == <<"o", "k">>
s_unknown == <<"u", "n", "k", "n", "o", "w", "n">>
s_juker == <<"j", "u", "k", "e", "r">>
s_v0_1_0 == <<"0", ".", "1", ".", "0">>
s_rust == <<"r", "u", "s", "t">>
s_v1_70_0 == <<"1", ".", "7", "0", ".", "0">>
s_text_x_rust == <<"t", "e", "x", "t", "/", "x", "-", "r", "u", "s", "t">>
s_dot_rs == <<".", "r", "s">>
s_banner_rust ==
    <<"J", "u", "k", "e", "r", " ", "R", "u", "s", "t", " ", "J", "u", "p", "y", "t", "e", "r",
      " ", "K", "e", "r", "n", "e", "l">>
s_juker_documentation ==
    <<"J", "u", "k", "e", "r", " ", "D", "o", "c", "u", "m", "e", "n", "t", "a", "t", "i", "o",
      "n">>
s_juker_url ==
    <<"h", "t", "t", "p", "s", ":", "/", "/", "g", "i", "t", "h", "u", "b", ".", "c", "o", "m",
      "/", "a", "s", "a", "r", "y", "c", "h", "e", "/", "j", "u", "k", "e", "r">>
s_Error_name == <<"E", "r", "r", "o", "r">>
s_evalue_text ==
    <<"A", "n", " ", "e", "r", "r", "o", "r", " ", "o", "c", "c", "u", "r", "r", "e", "d", " ",
      "d", "u", "r", "i", "n", "g", " ", "c", "o", "d", "e", " ", "e", "x", "e", "c", "u", "t",
      "i", "o", "n">>
s_traceback_head ==
    <<"T", "r", "a", "c", "e", "b", "a", "c", "k", " ", "(", "m", "o", "s", "t", " ", "r", "e",
      "c", "e", "n", "t", " ", "c", "a", "l", "l", " ", "l", "a", "s", "t", ")", ":">>
s_traceback_dots == <<" ", " ", ".", ".", ".">>
s_executed_code == <<"E", "x", "e", "c", "u", "t", "e", "d", " ", "c", "o", "d", "e", ":", " ">>
s_err == <<"e", "r", "r">>
s_two_plus_two == <<"2", "+", "2">>
s_error_call == <<"e", "r", "r", "o", "r", "(", ")">>
s_yes == <<"y", "e", "s">>
s_testing == <<"t", "e", "s", "t", "i", "n", "g">>
s_v0_0_0 == <<"0", ".", "0", ".", "0">>
s_text_testing == <<"t", "e", "x", "t", "/", "t", "e", "s", "t", "i", "n", "g">>
s_dot_testing == <<".", "t", "e", "s", "t", "i", "n", "g">>
s_banner_testing ==
    <<"J", "u", "k", "e", "r", " ", "T", "e", "s", "t", " ", "J", "u", "p", "y", "t", "e", "r",
      " ", "K", "e", "r", "n", "e", "l">>
s_ids_msg == <<"<", "I", "D", "S", "|", "M", "S", "G", ">">>
s_peer == <<"p", "e", "e", "r">>
s_hop == <<"h", "o", "p">>
s_hmac_sha256 == <<"h", "m", "a", "c", "-", "s", "h", "a", "2", "5", "6">>
s_secret == <<"s", "e", "c", "r", "e", "t">>
s_md5 == <<"m", "d", "5">>
s_HMAC_SHA256 == <<"H", "M", "A", "C", "-", "S", "H", "A", "2", "5", "6">>
s_hmac_sha512 == <<"h", "m", "a", "c", "-", "s", "h", "a", "5", "1", "2">>
s_sha256 == <<"s", "h", "a", "2", "5", "6">>
s_key2 == <<"k", "e", "y", "2">>
s_tcp == <<"t", "c", "p">>
s_ip == <<"1", "2", "7", ".", "0", ".", "0", ".", "1">>
s_x_request_request ==
    <<"x", "_", "r", "e", "q", "u", "e", "s", "t", "_", "r", "e", "q", "u", "e", "s", "t">>

(* The position of a character in the byte order of the characters used.   *)
CharCode(c) == CHOOSE i \in DOMAIN Alphabet : Alphabet[i] = c

(* str::starts_with                                                        *)
starts_with(s, p) == Len(s) >= Len(p) /\ SubSeq(s, 1, Len(p)) = p

(* str::replace: every non-overlapping match of from, left to right.       *)
RECURSIVE replace(_, _, _)
replace(s, from, to) ==
    IF Len(s) = 0 THEN <<>>
    ELSE IF starts_with(s, from)
         THEN to \o replace(SubSeq(s, Len(from) + 1, Len(s)), from, to)
         ELSE <<Head(s)>> \o replace(Tail(s), from, to)

(* The byte order of two strings (Ord for str).                            *)
RECURSIVE StrLess(_, _)
StrLess(a, b) ==
    IF Len(b) = 0 THEN FALSE
    ELSE IF Len(a) = 0 THEN TRUE
    ELSE IF Head(a) = Head(b) THEN StrLess(Tail(a), Tail(b))
    ELSE CharCode(Head(a)) < CharCode(Head(b))

(* The decimal digits of a natural number (Display for u32).               *)
RECURSIVE Decimal(_)
Decimal(n) ==
    IF n < 10 THEN <<Alphabet[CharCode("0") + n]>>
    ELSE Decimal(n \div 10) \o <<Alphabet[CharCode("0") + (n % 10)]>>

(***************************************************************************)
(* serde_json::Value.                                                      *)
(***************************************************************************)
JNull == [k |-> "null"]
JBool(b) == [k |-> "bool", b |-> b]
JNum(n) == [k |-> "num", n |-> n]
JStr(s) == [k |-> "str", s |-> s]
JArr(a) == [k |-> "arr", a |-> a]
JObj(o) == [k |-> "obj", o |-> o]

EmptyMap == [x \in {} |-> JNull]
EmptyObj == JObj(EmptyMap)

(* Index<&str> for Value: Null unless v is an object that has the key.     *)
Index(v, key) ==
    IF v.k = "obj" /\ key \in DOMAIN v.o THEN v.o[key] ELSE JNull

None == [some |-> FALSE]
Some(x) == [some |-> TRUE, v |-> x]

(* Value::as_str, Value::as_bool                                           *)
as_str(v) == IF v.k = "str" THEN Some(v.s) ELSE None
as_bool(v) == IF v.k = "bool" THEN Some(v.b) ELSE None

(* PartialEq<&str> for Value                                               *)
EqStr(v, s) == v.k = "str" /\ v.s = s

(***************************************************************************)
(* Byte buffers. A token of a JSON text is a punctuation mark, a literal,  *)
(* a number or a string; a raw token is a byte string that is no JSON.     *)
(***************************************************************************)
Tok(p) == [t |-> p]
TNum(n) == [t |-> "num", n |-> n]
TStr(s) == [t |-> "str", s |-> s]
TRaw(s) == [t |-> "raw", s |-> s]

Raw(s) == <<TRaw(s)>>
EmptyBytes == <<>>

(* The keys of a Map, in the order serde_json serializes them (a BTreeMap: *)
(* byte order).                                                            *)
RECURSIVE SortedKeys(_)
SortedKeys(S) ==
    IF S = {} THEN <<>>
    ELSE LET m == CHOOSE x \in S : \A y \in S \ {x} : StrLess(x, y)
         IN <<m>> \o SortedKeys(S \ {m})

(* serde_json::to_vec                                                      *)
RECURSIVE to_vec(_)
RECURSIVE to_vec_elems(_, _)
RECURSIVE to_vec_members(_, _, _)
to_vec_elems(a, i) ==
    IF i > Len(a) THEN <<>>
    ELSE (IF i > 1 THEN <<Tok(",")>> ELSE <<>>) \o to_vec(a[i]) \o to_vec_elems(a, i + 1)
to_vec_members(o, keys, i) ==
    IF i > Len(keys) THEN <<>>
    ELSE (IF i > 1 THEN <<Tok(",")>> ELSE <<>>)
         \o <<TStr(keys[i]), Tok(":")>> \o to_vec(o[keys[i]])
         \o to_vec_members(o, keys, i + 1)
to_vec(v) ==
    CASE v.k = "null" -> <<Tok("null")>>
      [] v.k = "bool" -> <<Tok(IF v.b THEN "true" ELSE "false")>>
      [] v.k = "num"  -> <<TNum(v.n)>>
      [] v.k = "str"  -> <<TStr(v.s)>>
      [] v.k = "arr"  -> <<Tok("[")>> \o to_vec_elems(v.a, 1) \o <<Tok("]")>>
      [] v.k = "obj"  -> <<Tok("{")>> \o to_vec_members(v.o, SortedKeys(DOMAIN v.o), 1)
                         \o <<Tok("}")>>

(* serde_json::from_slice: a recursive-descent parser. ParseValue reads    *)
(* one value at position i and gives the position after it.                *)
ParseErr == [ok |-> FALSE, v |-> JNull, i |-> 0]
ParseOk(v, i) == [ok |-> TRUE, v |-> v, i |-> i]
IsTok(b, i, p) == i <= Len(b) /\ b[i].t = p

RECURSIVE ParseValue(_, _)
RECURSIVE ParseElems(_, _, _)
RECURSIVE ParseMembers(_, _, _)
(* after "[" or ",": an element, then "," or "]"                           *)
ParseElems(b, i, acc) ==
    LET e == ParseValue(b, i) IN
    IF ~e.ok THEN ParseErr
    ELSE IF IsTok(b, e.i, "]") THEN ParseOk(JArr(Append(acc, e.v)), e.i + 1)
    ELSE IF IsTok(b, e.i, ",") THEN ParseElems(b, e.i + 1, Append(acc, e.v))
    ELSE ParseErr
(* after "{" or ",": a key, ":", a value, then "," or "}"; a key that      *)
(* occurs twice keeps its last value                                       *)
ParseMembers(b, i, acc) ==
    IF ~(IsTok(b, i, "str") /\ IsTok(b, i + 1, ":")) THEN ParseErr
    ELSE LET e == ParseValue(b, i + 2) IN
         IF ~e.ok THEN ParseErr
         ELSE LET acc2 == (b[i].s :> e.v) @@ acc IN
              IF IsTok(b, e.i, "}") THEN ParseOk(JObj(acc2), e.i + 1)
              ELSE IF IsTok(b, e.i, ",") THEN ParseMembers(b, e.i + 1, acc2)
              ELSE ParseErr
ParseValue(b, i) ==
    IF i > Len(b) THEN ParseErr
    ELSE CASE b[i].t = "null"  -> ParseOk(JNull, i + 1)
           [] b[i].t = "true"  -> ParseOk(JBool(TRUE), i + 1)
           [] b[i].t = "false" -> ParseOk(JBool(FALSE), i + 1)
           [] b[i].t = "num"   -> ParseOk(JNum(b[i].n), i + 1)
           [] b[i].t = "str"   -> ParseOk(JStr(b[i].s), i + 1)
           [] b[i].t = "["     ->
                IF IsTok(b, i + 1, "]") THEN ParseOk(JArr(<<>>), i + 2)
                ELSE ParseElems(b, i + 1, <<>>)
           [] b[i].t = "{"     ->
                IF IsTok(b, i + 1, "}") THEN ParseOk(EmptyObj, i + 2)
                ELSE ParseMembers(b, i + 1, EmptyMap)
           [] OTHER            -> ParseErr

(* JuResult: Ok(v) or Err(e); JuError: a variant and its message           *)
Ok(v) == [ok |-> TRUE, v |-> v]
Err(e) == [ok |-> FALSE, e |-> e]
JuError(kind, msg) == [kind |-> kind, msg |-> msg]

(* from_slice fails on a text that is no value and on trailing tokens.     *)
from_slice(b) ==
    LET r == ParseValue(b, 1) IN
    IF r.ok /\ r.i = Len(b) + 1 THEN Ok(r.v) ELSE Err(JuError("JsonError", ""))

(***************************************************************************)
(* ConnectionInfo (con_info.rs): the fields the server reads.              *)
(***************************************************************************)
Ports(hb, shell, control, iopub) ==
    [hb_port |-> hb, shell_port |-> shell, control_port |-> control, iopub_port |-> iopub]
ConnectionInfo(signature_scheme, key, ports) ==
    [signature_scheme |-> signature_scheme, key |-> key, transport |-> s_tcp, ip |-> s_ip,
     hb_port |-> ports.hb_port, shell_port |-> ports.shell_port,
     control_port |-> ports.control_port, iopub_port |-> ports.iopub_port]

(***************************************************************************)
(* Digester (digester.rs). The MAC is not computed: a MAC context holds    *)
(* the key and the bytes fed to it so far, and the signature of a keyed    *)
(* digester is one token that holds both, which is all the hex string      *)
(* depends on.                                                             *)
(***************************************************************************)
(* hmac_sha256::HMAC: new, update, finalize (hex-encoded)                  *)
HMAC_new(key) == [key |-> key, fed |-> <<>>]
HMAC_update(mac, d) == [mac EXCEPT !.fed = @ \o d]
HMAC_finalize_hex(mac) == <<[t |-> "hex", key |-> mac.key, fed |-> mac.fed]>>

DigesterNone == [d |-> "None"]
HmacSha256(key) == [d |-> "HmacSha256", hmac |-> HMAC_new(key)]

(* a construction that takes every name it does not know for no scheme     *)
Digester_new_lenient(ci) ==
    IF ci.signature_scheme = s_hmac_sha256 THEN Ok(HmacSha256(ci.key))
    ELSE Ok(DigesterNone)

Digester_new(ci) ==
    IF Len(ci.signature_scheme) = 0 THEN Ok(DigesterNone)
    ELSE IF ci.signature_scheme = s_hmac_sha256 THEN Ok(HmacSha256(ci.key))
    ELSE Err(JuError("UnknownDigest", ci.signature_scheme))

(* the MAC context digest has fed the four buffers to                      *)
digest_mac(hmac, d1, d2, d3, d4) ==
    HMAC_update(HMAC_update(HMAC_update(HMAC_update(hmac, d1), d2), d3), d4)

(* digest: the context of the Digester is cloned, the clone is fed the     *)
(* four buffers and finalized                                              *)
digest(dg, d1, d2, d3, d4) ==
    IF dg.d = "HmacSha256"
    THEN LET mac == digest_mac(dg.hmac, d1, d2, d3, d4) IN HMAC_finalize_hex(mac)
    ELSE EmptyBytes

(* a digest that feeds the context of the Digester itself                  *)
digest_self_no_clone(dg, d1, d2, d3, d4) ==
    IF dg.d = "HmacSha256"
    THEN [dg EXCEPT !.hmac = digest_mac(dg.hmac, d1, d2, d3, d4)]
    ELSE dg

(* the Digester after a call of digest: it takes &self, and the updates go *)
(* to the clone                                                            *)
digest_self(dg, d1, d2, d3, d4) == dg

(***************************************************************************)
(* JuMessage and its wire form (message.rs). A ZmqMessage is a sequence of *)
(* frames.                                                                 *)
(***************************************************************************)
DELIMITER == Raw(s_ids_msg)

JuMessage(ids, header, parent_header, metadata, content) ==
    [zmq_ids |-> ids, header |-> header, parent_header |-> parent_header,
     metadata |-> metadata, content |-> content]

with_content(m, content) == [m EXCEPT !.content = content]

(* push_front of the ids, first id first                                   *)
RECURSIVE PushFrontFwd(_, _)
PushFrontFwd(ids, msg) ==
    IF Len(ids) = 0 THEN msg
    ELSE PushFrontFwd(Tail(ids), <<Head(ids)>> \o msg)

(* push_front of the ids, last id first                                    *)
RECURSIVE PushFrontRev(_, _)
PushFrontRev(ids, msg) ==
    IF Len(ids) = 0 THEN msg
    ELSE PushFrontRev(SubSeq(ids, 1, Len(ids) - 1), <<ids[Len(ids)]>> \o msg)

(* a to_zmq_message that pushes the signature after the documents         *)
to_zmq_message_sig_last(m, dg) ==
    LET header        == to_vec(m.header)
        parent_header == to_vec(m.parent_header)
        metadata      == to_vec(m.metadata)
        content       == to_vec(m.content)
        hmac          == digest(dg, header, parent_header, metadata, content)
    IN PushFrontRev(m.zmq_ids, <<DELIMITER>>)
       \o <<header, parent_header, metadata, content, hmac>>

to_zmq_message(m, dg) ==
    LET header        == to_vec(m.header)
        parent_header == to_vec(m.parent_header)
        metadata      == to_vec(m.metadata)
        content       == to_vec(m.content)
        hmac          == digest(dg, header, parent_header, metadata, content)
    IN PushFrontRev(m.zmq_ids, <<DELIMITER>>)
       \o <<hmac, header, parent_header, metadata, content>>

(* a search that stops at the last delimiter of the frames                  *)
FindDelimiter_last(frames, i) ==
    IF \E j \in i..Len(frames) : frames[j] = DELIMITER
    THEN CHOOSE j \in i..Len(frames) :
           frames[j] = DELIMITER /\ \A k \in (j + 1)..Len(frames) : frames[k] # DELIMITER
    ELSE 0

(* The index of the first frame equal to the delimiter, 0 when there is    *)
(* none (the try_fold over the frames).                                    *)
RECURSIVE FindDelimiter(_, _)
FindDelimiter(frames, i) ==
    IF i > Len(frames) THEN 0
    ELSE IF frames[i] = DELIMITER THEN i
    ELSE FindDelimiter(frames, i + 1)

Malformed(what) == Err(JuError("MalformedMessage", what))

(* a try_from that takes a missing content frame for an empty content      *)
try_from_default_content(frames) ==
    LET d == FindDelimiter(frames, 1)
        n == Len(frames)
    IN IF d = 0 THEN Malformed("no delimiter found")
       ELSE IF d + 1 > n THEN Malformed("no signature")
       ELSE IF d + 2 > n THEN Malformed("no header")
       ELSE LET header == from_slice(frames[d + 2]) IN
       IF ~header.ok THEN header
       ELSE IF d + 3 > n THEN Malformed("no parent header")
       ELSE LET parent_header == from_slice(frames[d + 3]) IN
       IF ~parent_header.ok THEN parent_header
       ELSE IF d + 4 > n THEN Malformed("no metadata")
       ELSE LET metadata == from_slice(frames[d + 4]) IN
       IF ~metadata.ok THEN metadata
       ELSE LET content == IF d + 5 > n THEN Ok(EmptyObj) ELSE from_slice(frames[d + 5]) IN
       IF ~content.ok THEN content
       ELSE Ok(JuMessage(SubSeq(frames, 1, d - 1), header.v, parent_header.v,
                         metadata.v, content.v))

(* a try_from that takes an empty signature frame for a missing signature  *)
try_from_signature_required(frames) ==
    LET d == FindDelimiter(frames, 1)
        n == Len(frames)
    IN IF d = 0 THEN Malformed("no delimiter found")
       ELSE IF d + 1 > n \/ frames[d + 1] = EmptyBytes THEN Malformed("no signature")
       ELSE IF d + 2 > n THEN Malformed("no header")
       ELSE LET header == from_slice(frames[d + 2]) IN
       IF ~header.ok THEN header
       ELSE IF d + 3 > n THEN Malformed("no parent header")
       ELSE LET parent_header == from_slice(frames[d + 3]) IN
       IF ~parent_header.ok THEN parent_header
       ELSE IF d + 4 > n THEN Malformed("no metadata")
       ELSE LET metadata == from_slice(frames[d + 4]) IN
       IF ~metadata.ok THEN metadata
       ELSE IF d + 5 > n THEN Malformed("no content")
       ELSE LET content == from_slice(frames[d + 5]) IN
       IF ~content.ok THEN content
       ELSE Ok(JuMessage(SubSeq(frames, 1, d - 1), header.v, parent_header.v,
                         metadata.v, content.v))

(* TryFrom<ZmqMessage> for JuMessage                                       *)
try_from(frames) ==
    LET d == FindDelimiter(frames, 1)
        n == Len(frames)
    IN IF d = 0 THEN Malformed("no delimiter found")
       ELSE IF d + 1 > n THEN Malformed("no signature")
       ELSE IF d + 2 > n THEN Malformed("no header")
       ELSE LET header == from_slice(frames[d + 2]) IN
       IF ~header.ok THEN header
       ELSE IF d + 3 > n THEN Malformed("no parent header")
       ELSE LET parent_header == from_slice(frames[d + 3]) IN
       IF ~parent_header.ok THEN parent_header
       ELSE IF d + 4 > n THEN Malformed("no metadata")
       ELSE LET metadata == from_slice(frames[d + 4]) IN
       IF ~metadata.ok THEN metadata
       ELSE IF d + 5 > n THEN Malformed("no content")
       ELSE LET content == from_slice(frames[d + 5]) IN
       IF ~content.ok THEN content
       ELSE Ok(JuMessage(SubSeq(frames, 1, d - 1), header.v, parent_header.v,
                         metadata.v, content.v))

(***************************************************************************)
(* Header synthesis (server_id.rs; server.rs holds the same four           *)
(* functions). A fresh Uuid is a pair n = <<h, i>>: the i-th Uuid drawn    *)
(* for the handler run h. The clock is not modelled, every date is s_now.  *)
(***************************************************************************)
(* the handling of the n-th message of a channel ("s" shell, "c" control); *)
(* n = 0 is the start of the server                                        *)
Handler(chan, n) == <<chan>> \o Decimal(n) \o <<"_">>
Uuid(n) == s_id \o n[1] \o Decimal(n[2])

new_header(msg_type, n) ==
    JObj((s_msg_id :> JStr(Uuid(n)))
         @@ (s_username :> JStr(s_kernel))
         @@ (s_session :> JStr(s_sess))
         @@ (s_msg_type :> JStr(msg_type))
         @@ (s_version :> JStr(s_v5_3))
         @@ (s_date :> JStr(s_now)))

new_message(msg_type, n) ==
    JuMessage(<<>>, new_header(msg_type, n), EmptyObj, EmptyObj, EmptyObj)

new_derived_message(msg, msg_type, n) ==
    JuMessage(<<>>, new_header(msg_type, n), msg.header, EmptyObj, EmptyObj)

unwrap_or(opt, dflt) == IF opt.some THEN opt.v ELSE dflt

(* Value::get: None unless v is an object that has the key                 *)
get(v, key) == IF v.k = "obj" /\ key \in DOMAIN v.o THEN Some(v.o[key]) ELSE None
and_then_as_str(opt) == IF opt.some THEN as_str(opt.v) ELSE None

new_reply_message(msg, n) ==
    LET msg_type == replace(unwrap_or(and_then_as_str(get(msg.header, s_msg_type)), <<>>),
                            s_suffix_request, s_suffix_reply)
    IN JuMessage(msg.zmq_ids, new_header(msg_type, n), msg.header, EmptyObj, EmptyObj)

(***************************************************************************)
(* Bounds of the model.                                                    *)
(***************************************************************************)
(* inbound messages received in one run, on the shell and the control      *)
(* channel together                                                        *)
MaxRecv == 3
(* result values of one evaluation by the pluggable kernel                 *)
MaxResults == 2

(***************************************************************************)
(* The body of a handler is a list of steps, run in order by Exec. A step  *)
(* that fails inside process_shell_msg of the shell processor is caught by *)
(* the match in run, which logs the error: such a step has caught = TRUE   *)
(* and its failure skips the caught steps after it. Any other failure is   *)
(* propagated by `?` and ends the run.                                     *)
(***************************************************************************)
(* self.<sock>.send(msg, digester).await?  with msg built by `kind`        *)
SendOp(chan, kind, trigger, msg_type, content, caught) ==
    [op |-> "send", chan |-> chan, kind |-> kind, trigger |-> trigger,
     msg_type |-> msg_type, content |-> content, caught |-> caught]
(* return Err(e) from process_shell_msg                                    *)
RaiseOp(e) == [op |-> "raise", e |-> e, caught |-> TRUE]
(* self.execution_count += 1                                               *)
IncOp == [op |-> "inc", caught |-> TRUE]
(* the evaluation of the code starts; the handler is suspended             *)
EvalOp(code, caught) == [op |-> "eval", code |-> code, caught |-> caught]
(* self.<sock>.try_lock()?                                                 *)
TryLockOp(sock) == [op |-> "try_lock", sock |-> sock, caught |-> FALSE]
(* futs.push(<a receive on sock>), which holds the lock of sock            *)
PushRecvOp(sock) == [op |-> "push", sock |-> sock, caught |-> FALSE]
(* continue: back to futs.next()                                           *)
ContinueOp == [op |-> "continue", caught |-> FALSE]
(* return v                                                                *)
ReturnOp(v) == [op |-> "return", v |-> v, caught |-> FALSE]
(* warn!(..) / error!(..) that is no caught error                          *)
LogOp(level, what) == [op |-> "log", level |-> level, what |-> what, caught |-> FALSE]

(* What a handler has in hand while it runs.                               *)
(*   task, uuids: the handler run (see Handler) and the Uuids it has       *)
(*   drawn so far; ec: execution_count; futs: the pending                  *)
(*   receives per socket; ev: the events so far; k: sends attempted;       *)
(*   skip: a caught error was raised; ret: the value run returned with;    *)
(*   eval: the code whose evaluation is pending; stop: the handler is over *)
Machine(task, uuids, ec, futs) ==
    [task |-> task, uuids |-> uuids, ec |-> ec, futs |-> futs, ev |-> <<>>, k |-> 0,
     skip |-> FALSE, ret |-> None, eval |-> None, stop |-> FALSE]

BuildMsg(o, n) ==
    with_content(
        CASE o.kind = "new"     -> new_message(o.msg_type, n)
          [] o.kind = "derived" -> new_derived_message(o.trigger, o.msg_type, n)
          [] o.kind = "reply"   -> new_reply_message(o.trigger, n),
        o.content)

EvSend(chan, msg) == [ev |-> "send", chan |-> chan, msg |-> msg]
EvSendFailed(chan, msg) == [ev |-> "send_failed", chan |-> chan, msg |-> msg]
EvError(e) == [ev |-> "error", e |-> e]
EvLog(level, what) == [ev |-> "log", level |-> level, what |-> what]
EvEval(code) == [ev |-> "eval", code |-> code]
EvEvalDone(eval_result) == [ev |-> "eval_done", eval_result |-> eval_result]
EvRecv(chan, msg) == [ev |-> "recv", chan |-> chan, msg |-> msg]
EvRecvFailed(chan, e) == [ev |-> "recv_failed", chan |-> chan, e |-> e]

ZmqError == JuError("ZmqError", "")
TryLockError == JuError("TryLockError", "")

(* An error raised by a step: logged when caught, else the run returns it. *)
Fail(st, o, e) ==
    IF o.caught
    THEN [st EXCEPT !.skip = TRUE, !.ev = Append(@, EvError(e))]
    ELSE [st EXCEPT !.ret = Some(Err(e)), !.stop = TRUE]

(* One step. F is the set of send attempts the transport fails.            *)
Step(st, o, F) ==
    CASE o.op = "send" ->
           LET k == st.k + 1
               m == BuildMsg(o, <<st.task, st.uuids>>)
               s == [st EXCEPT !.k = k, !.uuids = @ + 1]
           IN IF k \in F
              THEN Fail([s EXCEPT !.ev = Append(@, EvSendFailed(o.chan, m))], o, ZmqError)
              ELSE [s EXCEPT !.ev = Append(@, EvSend(o.chan, m))]
      [] o.op = "raise" -> Fail(st, o, o.e)
      [] o.op = "inc" -> [st EXCEPT !.ec = @ + 1]
      [] o.op = "eval" ->
           [st EXCEPT !.eval = Some(o.code), !.ev = Append(@, EvEval(o.code)),
                      !.stop = TRUE]
      [] o.op = "try_lock" ->
           IF st.futs[o.sock] > 0 THEN Fail(st, o, TryLockError) ELSE st
      [] o.op = "push" -> [st EXCEPT !.futs[o.sock] = @ + 1]
      [] o.op = "continue" -> [st EXCEPT !.stop = TRUE]
      [] o.op = "return" -> [st EXCEPT !.ret = Some(o.v), !.stop = TRUE]
      [] o.op = "log" -> [st EXCEPT !.ev = Append(@, EvLog(o.level, o.what))]

RECURSIVE Exec(_, _, _, _)
Exec(ops, i, st, F) ==
    IF i > Len(ops) \/ st.stop THEN st
    ELSE IF st.skip /\ ops[i].caught THEN Exec(ops, i + 1, st, F)
    ELSE Exec(ops, i + 1, Step(st, ops[i], F), F)

(***************************************************************************)
(* The requests' contents and the pluggable kernel.                        *)
(***************************************************************************)
Obj1(k1, v1) == JObj(k1 :> v1)
Obj2(k1, v1, k2, v2) == JObj((k1 :> v1) @@ (k2 :> v2))
Obj3(k1, v1, k2, v2, k3, v3) == JObj((k1 :> v1) @@ (k2 :> v2) @@ (k3 :> v3))

NoMsg == JuMessage(<<>>, JNull, JNull, JNull, JNull)

ExecutionState(s) == Obj1(s_execution_state, JStr(s))

(* EvalResult                                                              *)
Success(results) == [tag |-> "Success", results |-> results]
Error(ename, evalue, traceback) ==
    [tag |-> "Error", ename |-> ename, evalue |-> evalue, traceback |-> traceback]
EvalValue(data, metadata) == [data |-> data, metadata |-> metadata]

(* eval_code of server.rs, and of the kernel Eva of main.rs                *)
eval_code(code) ==
    IF starts_with(code, s_err)
    THEN Error(JStr(s_Error_name), JStr(s_evalue_text),
               <<JStr(s_traceback_head), JStr(s_traceback_dots)>>)
    ELSE Success(<<EvalValue(Obj1(s_text_plain, JStr(s_executed_code \o code)), EmptyObj)>>)

(* What a pluggable kernel (JuKernel::eval_code) may give for a code: an   *)
(* error, or up to MaxResults values.                                      *)
RECURSIVE Repeat(_, _)
Repeat(x, n) == IF n = 0 THEN <<>> ELSE <<x>> \o Repeat(x, n - 1)
KernelResults(code) ==
    {Error(JStr(s_Error_name), JStr(s_evalue_text), <<JStr(s_traceback_head)>>)}
    \cup {Success(Repeat(EvalValue(Obj1(s_text_plain, JStr(code)), EmptyObj), n)) :
            n \in 0..MaxResults}

(* JuKernel::kernel_info of the kernel Eva (main.rs)                       *)
kernel_info ==
    [name |-> s_testing, version |-> s_v0_0_0, mimetype |-> s_text_testing,
     file_extension |-> s_dot_testing, banner |-> s_banner_testing,
     help_links |-> <<[text |-> s_juker_documentation, url |-> s_juker_url]>>]

KernelInfoContent(name, version, mimetype, file_extension, banner, help_links) ==
    JObj((s_protocol_version :> JStr(s_v5_3))
         @@ (s_implementation :> JStr(s_juker))
         @@ (s_implementation_version :> JStr(s_v0_1_0))
         @@ (s_language_info :>
               JObj((s_name :> JStr(name)) @@ (s_version :> JStr(version))
                    @@ (s_mimetype :> JStr(mimetype))
                    @@ (s_file_extension :> JStr(file_extension))))
         @@ (s_banner :> JStr(banner))
         @@ (s_help_links :>
               JArr([i \in DOMAIN help_links |->
                       Obj2(s_text, JStr(help_links[i].text),
                            s_url, JStr(help_links[i].url))])))

NoCode == JuError("NoCode", "execute_request message missing 'code' field")
UnsupportedMessageType(v) ==
    [kind |-> "UnsupportedMessageType", msg |-> "", arg |-> to_vec(v)]

(***************************************************************************)
(* JuShellProcessor (shell_processor.rs).                                  *)
(***************************************************************************)
(* a process_shell_msg that publishes execute_input before it looks for    *)
(* the code                                                                *)
process_shell_msg_input_first(msg, ec) ==
    IF EqStr(Index(msg.header, s_msg_type), s_execute_request) THEN
        LET count == ec + 1
            code  == Index(msg.content, s_code)
        IN <<IncOp,
             SendOp("iopub", "derived", msg, s_execute_input,
                    Obj2(s_code, code, s_execution_count, JNum(count)), TRUE)>>
           \o (IF code.k = "str" THEN <<EvalOp(code.s, TRUE)>> ELSE <<RaiseOp(NoCode)>>)
    ELSE <<RaiseOp(UnsupportedMessageType(Index(msg.header, s_msg_type)))>>

(* process_shell_msg up to the evaluation of the code; ec is               *)
(* execution_count when the request is dispatched                          *)
process_shell_msg(msg, ec) ==
    IF EqStr(Index(msg.header, s_msg_type), s_kernel_info_request) THEN
        LET info == kernel_info IN
        <<SendOp("shell", "reply", msg, <<>>,
                 KernelInfoContent(info.name, info.version, info.mimetype,
                                   info.file_extension, info.banner, info.help_links),
                 TRUE)>>
    ELSE IF EqStr(Index(msg.header, s_msg_type), s_is_complete_request) THEN
        <<SendOp("shell", "reply", msg, <<>>, Obj1(s_status, JStr(s_unknown)), TRUE)>>
    ELSE IF EqStr(Index(msg.header, s_msg_type), s_execute_request) THEN
        LET count == ec + 1
            code  == Index(msg.content, s_code)
        IN <<IncOp>>
           \o (IF code.k = "str"
               THEN <<SendOp("iopub", "derived", msg, s_execute_input,
                             Obj2(s_code, JStr(code.s), s_execution_count, JNum(count)),
                             TRUE),
                      EvalOp(code.s, TRUE)>>
               ELSE <<RaiseOp(NoCode)>>)
    ELSE <<RaiseOp(UnsupportedMessageType(Index(msg.header, s_msg_type)))>>

(* a dispatch that publishes the outcome of the evaluation before it       *)
(* replies                                                                 *)
process_eval_result_outcome_first(msg, eval_result, ec) ==
    IF eval_result.tag = "Success" THEN
        [i \in DOMAIN eval_result.results |->
              SendOp("iopub", "derived", msg, s_execute_result,
                     Obj3(s_data, eval_result.results[i].data,
                          s_metadata, eval_result.results[i].metadata,
                          s_execution_count, JNum(ec)),
                     TRUE)]
        \o <<SendOp("shell", "reply", msg, <<>>,
                    Obj2(s_status, JStr(s_ok), s_execution_count, JNum(ec)), TRUE)>>
    ELSE
        <<SendOp("iopub", "derived", msg, s_error,
                 Obj3(s_ename, eval_result.ename, s_evalue, eval_result.evalue,
                      s_traceback, JArr(eval_result.traceback)),
                 TRUE),
          SendOp("shell", "reply", msg, <<>>,
                 JObj((s_status :> JStr(s_error))
                      @@ (s_ename :> eval_result.ename)
                      @@ (s_evalue :> eval_result.evalue)
                      @@ (s_traceback :> JArr(eval_result.traceback))
                      @@ (s_execution_count :> JNum(ec))),
                 TRUE)>>

(* process_shell_msg from the result of the evaluation on; ec is           *)
(* execution_count, which the request has incremented                      *)
process_eval_result(msg, eval_result, ec) ==
    IF eval_result.tag = "Success" THEN
        <<SendOp("shell", "reply", msg, <<>>,
                 Obj2(s_status, JStr(s_ok), s_execution_count, JNum(ec)), TRUE)>>
        \o [i \in DOMAIN eval_result.results |->
              SendOp("iopub", "derived", msg, s_execute_result,
                     Obj3(s_data, eval_result.results[i].data,
                          s_metadata, eval_result.results[i].metadata,
                          s_execution_count, JNum(ec)),
                     TRUE)]
    ELSE
        <<SendOp("shell", "reply", msg, <<>>,
                 JObj((s_status :> JStr(s_error))
                      @@ (s_ename :> eval_result.ename)
                      @@ (s_evalue :> eval_result.evalue)
                      @@ (s_traceback :> JArr(eval_result.traceback))
                      @@ (s_execution_count :> JNum(ec))),
                 TRUE),
          SendOp("iopub", "derived", msg, s_error,
                 Obj3(s_ename, eval_result.ename, s_evalue, eval_result.evalue,
                      s_traceback, JArr(eval_result.traceback)),
                 TRUE)>>

(* the status messages of run and new                                      *)
StartingOp == SendOp("iopub", "new", NoMsg, s_status, ExecutionState(s_starting), FALSE)
IdleOp == SendOp("iopub", "new", NoMsg, s_status, ExecutionState(s_idle), FALSE)
BusyOp(msg) == SendOp("iopub", "derived", msg, s_status, ExecutionState(s_busy), FALSE)

(* run, the arm of a received message: busy, the dispatch, idle            *)
run_recv(msg, ec) == <<BusyOp(msg)>> \o process_shell_msg(msg, ec) \o <<IdleOp>>

(* a run that publishes idle before the rest of the dispatch               *)
run_resume_idle_first(msg, eval_result, ec) ==
    <<IdleOp>> \o process_eval_result(msg, eval_result, ec)

(* run, once the evaluation is over: the rest of the dispatch, idle        *)
run_resume(msg, eval_result, ec) == process_eval_result(msg, eval_result, ec) \o <<IdleOp>>

(***************************************************************************)
(* JuServer (server.rs): the fan-in loop.                                  *)
(***************************************************************************)
(* ShellResult                                                             *)
Execute(code_msg, code) == [tag |-> "Execute", code_msg |-> code_msg, code |-> code]
Other(reply) == [tag |-> "Other", reply |-> reply]

(* JuServer::process_shell_msg; ec is execution_count before the call. The *)
(* messages of the result are given as the sends run makes of them.        *)
JuServer_process_shell_msg(msg, ec) ==
    IF EqStr(Index(msg.header, s_msg_type), s_kernel_info_request) THEN
        Ok(Other(SendOp("shell", "reply", msg, <<>>,
                        KernelInfoContent(s_rust, s_v1_70_0, s_text_x_rust, s_dot_rs,
                                          s_banner_rust,
                                          <<[text |-> s_juker_documentation,
                                             url |-> s_juker_url]>>),
                        FALSE)))
    ELSE IF EqStr(Index(msg.header, s_msg_type), s_is_complete_request) THEN
        Ok(Other(SendOp("shell", "reply", msg, <<>>, Obj1(s_status, JStr(s_unknown)),
                        FALSE)))
    ELSE IF EqStr(Index(msg.header, s_msg_type), s_execute_request) THEN
        LET count == ec + 1
            code  == Index(msg.content, s_code)
        IN IF code.k = "str"
           THEN Ok(Execute(SendOp("iopub", "derived", msg, s_execute_input,
                                  Obj2(s_code, JStr(code.s),
                                       s_execution_count, JNum(count)),
                                  FALSE),
                           code.s))
           ELSE Err(NoCode)
    ELSE Err(UnsupportedMessageType(Index(msg.header, s_msg_type)))

(* whether process_shell_msg increments execution_count for msg            *)
JuServer_increments(msg) == EqStr(Index(msg.header, s_msg_type), s_execute_request)

(* a run whose Execute arm has no continue                                 *)
JuServer_run_shell_no_continue(msg, ec) ==
    LET r == JuServer_process_shell_msg(msg, ec) IN
    <<BusyOp(msg)>>
    \o (IF JuServer_increments(msg) THEN <<[IncOp EXCEPT !.caught = FALSE]>> ELSE <<>>)
    \o (IF ~r.ok THEN <<RaiseOp(r.e)>>
        ELSE IF r.v.tag = "Execute"
             THEN <<r.v.code_msg, PushRecvOp("exec")>>
             ELSE <<TryLockOp("shell"), r.v.reply>>)
    \o <<TryLockOp("shell"), PushRecvOp("shell"), IdleOp>>

(* a run that registers the next shell receive before it replies           *)
JuServer_run_shell_recv_first(msg, ec) ==
    LET r == JuServer_process_shell_msg(msg, ec) IN
    <<BusyOp(msg)>>
    \o (IF JuServer_increments(msg) THEN <<[IncOp EXCEPT !.caught = FALSE]>> ELSE <<>>)
    \o <<TryLockOp("shell"), PushRecvOp("shell")>>
    \o (IF ~r.ok THEN <<RaiseOp(r.e)>>
        ELSE IF r.v.tag = "Execute"
             THEN <<r.v.code_msg, PushRecvOp("exec"), ContinueOp>>
             ELSE <<TryLockOp("shell"), r.v.reply>>)
    \o <<IdleOp>>

(* run, the arm of a message received on the shell socket                  *)
JuServer_run_shell(msg, ec) ==
    LET r == JuServer_process_shell_msg(msg, ec) IN
    <<BusyOp(msg)>>
    \o (IF JuServer_increments(msg) THEN <<[IncOp EXCEPT !.caught = FALSE]>> ELSE <<>>)
    \o (IF ~r.ok THEN <<RaiseOp(r.e)>>
        ELSE IF r.v.tag = "Execute"
             THEN <<r.v.code_msg, PushRecvOp("exec"), ContinueOp>>
             ELSE <<TryLockOp("shell"), r.v.reply>>)
    \o <<TryLockOp("shell"), PushRecvOp("shell"), IdleOp>>

(* an Execution arm that does not register the next shell receive         *)
JuServer_run_execution_no_push(original_msg, eval_result, ec) ==
    (IF eval_result.tag = "Success" THEN
        <<TryLockOp("shell"),
          SendOp("shell", "reply", original_msg, <<>>,
                 Obj2(s_status, JStr(s_ok), s_execution_count, JNum(ec)), FALSE)>>
        \o [i \in DOMAIN eval_result.results |->
              SendOp("iopub", "derived", original_msg, s_execute_result,
                     Obj3(s_data, eval_result.results[i].data,
                          s_metadata, eval_result.results[i].metadata,
                          s_execution_count, JNum(ec)),
                     FALSE)]
     ELSE
        <<TryLockOp("shell"),
          SendOp("shell", "reply", original_msg, <<>>,
                 JObj((s_status :> JStr(s_error))
                      @@ (s_ename :> eval_result.ename)
                      @@ (s_evalue :> eval_result.evalue)
                      @@ (s_traceback :> JArr(eval_result.traceback))
                      @@ (s_execution_count :> JNum(ec))),
                 FALSE),
          SendOp("iopub", "derived", original_msg, s_error,
                 Obj3(s_ename, eval_result.ename, s_evalue, eval_result.evalue,
                      s_traceback, JArr(eval_result.traceback)),
                 FALSE)>>)
    \o <<IdleOp>>

(* run, the arm of a finished evaluation                                   *)
JuServer_run_execution(original_msg, eval_result, ec) ==
    (IF eval_result.tag = "Success" THEN
        <<TryLockOp("shell"),
          SendOp("shell", "reply", original_msg, <<>>,
                 Obj2(s_status, JStr(s_ok), s_execution_count, JNum(ec)), FALSE)>>
        \o [i \in DOMAIN eval_result.results |->
              SendOp("iopub", "derived", original_msg, s_execute_result,
                     Obj3(s_data, eval_result.results[i].data,
                          s_metadata, eval_result.results[i].metadata,
                          s_execution_count, JNum(ec)),
                     FALSE)]
     ELSE
        <<TryLockOp("shell"),
          SendOp("shell", "reply", original_msg, <<>>,
                 JObj((s_status :> JStr(s_error))
                      @@ (s_ename :> eval_result.ename)
                      @@ (s_evalue :> eval_result.evalue)
                      @@ (s_traceback :> JArr(eval_result.traceback))
                      @@ (s_execution_count :> JNum(ec))),
                 FALSE),
          SendOp("iopub", "derived", original_msg, s_error,
                 Obj3(s_ename, eval_result.ename, s_evalue, eval_result.evalue,
                      s_traceback, JArr(eval_result.traceback)),
                 FALSE)>>)
    \o <<TryLockOp("shell"), PushRecvOp("shell"), IdleOp>>

(* a Control arm whose restart is true when the request gives no boolean   *)
JuServer_run_control_default_true(msg) ==
    LET msg_type == as_str(Index(msg.header, s_msg_type)) IN
    IF msg_type.some /\ msg_type.v = s_shutdown_request THEN
        LET b == as_bool(Index(msg.content, s_restart))
            want_restart == IF b.some THEN b.v ELSE TRUE
        IN <<TryLockOp("control"),
             SendOp("control", "reply", msg, <<>>,
                    Obj2(s_status, JStr(s_ok), s_restart, JBool(want_restart)), FALSE),
             ReturnOp(Ok(want_restart))>>
    ELSE (IF msg_type.some
          THEN <<LogOp("warn", "Unsupported control message type")>>
          ELSE <<LogOp("error", "Control message missing msg_type field")>>)
         \o <<TryLockOp("control"), PushRecvOp("control")>>

(* a Control arm that does not push the control receive again              *)
JuServer_run_control_no_push(msg) ==
    LET msg_type == as_str(Index(msg.header, s_msg_type)) IN
    IF msg_type.some /\ msg_type.v = s_shutdown_request THEN
        LET b == as_bool(Index(msg.content, s_restart))
            want_restart == IF b.some THEN b.v ELSE FALSE
        IN <<TryLockOp("control"),
             SendOp("control", "reply", msg, <<>>,
                    Obj2(s_status, JStr(s_ok), s_restart, JBool(want_restart)), FALSE),
             ReturnOp(Ok(want_restart))>>
    ELSE (IF msg_type.some
          THEN <<LogOp("warn", "Unsupported control message type")>>
          ELSE <<LogOp("error", "Control message missing msg_type field")>>)

(* run, the arm of a message received on the control socket                *)
(* a control arm that returns the restart decision before it replies       *)
JuServer_run_control_return_first(msg) ==
    LET msg_type == as_str(Index(msg.header, s_msg_type)) IN
    IF msg_type.some /\ msg_type.v = s_shutdown_request THEN
        LET b == as_bool(Index(msg.content, s_restart))
            want_restart == IF b.some THEN b.v ELSE FALSE
        IN <<ReturnOp(Ok(want_restart)),
             TryLockOp("control"),
             SendOp("control", "reply", msg, <<>>,
                    Obj2(s_status, JStr(s_ok), s_restart, JBool(want_restart)), FALSE)>>
    ELSE (IF msg_type.some
          THEN <<LogOp("warn", "Unsupported control message type")>>
          ELSE <<LogOp("error", "Control message missing msg_type field")>>)
         \o <<TryLockOp("control"), PushRecvOp("control")>>

(* a control arm that answers every request it is sent                     *)
JuServer_run_control_reply_all(msg) ==
    LET msg_type == as_str(Index(msg.header, s_msg_type)) IN
    IF msg_type.some THEN
        LET b == as_bool(Index(msg.content, s_restart))
            want_restart == IF b.some THEN b.v ELSE FALSE
        IN <<TryLockOp("control"),
             SendOp("control", "reply", msg, <<>>,
                    Obj2(s_status, JStr(s_ok), s_restart, JBool(want_restart)), FALSE)>>
           \o (IF msg_type.v = s_shutdown_request
               THEN <<ReturnOp(Ok(want_restart))>>
               ELSE <<TryLockOp("control"), PushRecvOp("control")>>)
    ELSE <<LogOp("error", "Control message missing msg_type field"),
           TryLockOp("control"), PushRecvOp("control")>>

JuServer_run_control(msg) ==
    LET msg_type == as_str(Index(msg.header, s_msg_type)) IN
    IF msg_type.some /\ msg_type.v = s_shutdown_request THEN
        LET b == as_bool(Index(msg.content, s_restart))
            want_restart == IF b.some THEN b.v ELSE FALSE
        IN <<TryLockOp("control"),
             SendOp("control", "reply", msg, <<>>,
                    Obj2(s_status, JStr(s_ok), s_restart, JBool(want_restart)), FALSE),
             ReturnOp(Ok(want_restart))>>
    ELSE (IF msg_type.some
          THEN <<LogOp("warn", "Unsupported control message type")>>
          ELSE <<LogOp("error", "Control message missing msg_type field")>>)
         \o <<TryLockOp("control"), PushRecvOp("control")>>

(***************************************************************************)
(* What the clients send. A receive gives a transport error or the frames  *)
(* of one multipart message.                                               *)
(***************************************************************************)
(* the n-th message a client sends on a channel                            *)
ClientHeader(n, msg_type) ==
    Obj2(s_msg_id, JStr(s_client \o Decimal(n)), s_msg_type, JStr(msg_type))
ClientMsg(n, msg_type, content) ==
    JuMessage(<<Raw(s_peer)>>, ClientHeader(n, msg_type), EmptyObj, EmptyObj, content)
Wire(m) == to_zmq_message(m, DigesterNone)

ExecuteWire == Wire(ClientMsg(0, s_execute_request, Obj1(s_code, JStr(s_two_plus_two))))

(* no delimiter; the frames end after the header; a content that is no JSON *)
MalformedWires ==
    { <<Raw(s_peer)>>,
      SubSeq(ExecuteWire, 1, 4),
      [ExecuteWire EXCEPT ![7] = <<Tok("{")>>] }

ShellWiresOf(n) ==
    { Wire(ClientMsg(n, s_kernel_info_request, EmptyObj)),
      Wire(ClientMsg(n, s_is_complete_request, Obj1(s_code, JStr(s_two_plus_two)))),
      Wire(ClientMsg(n, s_execute_request, Obj1(s_code, JStr(s_two_plus_two)))),
      Wire(ClientMsg(n, s_execute_request, Obj1(s_code, JStr(s_error_call)))),
      Wire(ClientMsg(n, s_execute_request, EmptyObj)),
      Wire(ClientMsg(n, s_execute_request, Obj1(s_code, JNum(1)))),
      Wire(ClientMsg(n, s_comm_info_request, EmptyObj)) }
    \cup MalformedWires

ControlWiresOf(n) ==
    { Wire(ClientMsg(n, s_shutdown_request, Obj1(s_restart, JBool(TRUE)))),
      Wire(ClientMsg(n, s_shutdown_request, Obj1(s_restart, JBool(FALSE)))),
      Wire(ClientMsg(n, s_shutdown_request, EmptyObj)),
      Wire(ClientMsg(n, s_shutdown_request, Obj1(s_restart, JStr(s_yes)))),
      Wire(ClientMsg(n, s_interrupt_request, EmptyObj)),
      Wire(JuMessage(<<Raw(s_peer)>>, EmptyObj, EmptyObj, EmptyObj, EmptyObj)),
      <<Raw(s_peer)>> }


Received(wires) == {Ok(w) : w \in wires} \cup {Err(ZmqError)}

(* HBSocket::recv (sockets.rs): self.sock.recv().await?.try_into()?        *)
recv(r) == IF r.ok THEN try_from(r.v) ELSE r

(* what the n-th receive on a channel may give                             *)
ShellRecv == [n \in 0..MaxRecv |-> {recv(r) : r \in Received(ShellWiresOf(n))}] @@ <<>>
ControlRecv == [n \in 0..MaxRecv |-> {recv(r) : r \in Received(ControlWiresOf(n))}] @@ <<>>

(* the messages a list of events shows as sent on a channel                *)
NSent(ev, chan) ==
    Cardinality({i \in DOMAIN ev : ev[i].ev = "send" /\ ev[i].chan = chan})

(* The sets of send attempts of a list of steps that the transport may     *)
(* fail. A handler goes on after a failed send only when the failure is    *)
(* caught, and then its one send left is the idle status: no more than two *)
(* attempts of a handler fail, one right after the other.                  *)
IsSendOp(o) == o.op = "send"
Failures(ops) ==
    LET sends == SelectSeq(ops, IsSendOp) IN
    {{}} \cup {{i} : i \in DOMAIN sends}
         \cup {{i, i + 1} : i \in {j \in DOMAIN sends : sends[j].caught}}

(***************************************************************************)
(* The state.                                                              *)
(***************************************************************************)
VARIABLES
    arch,             \* "fanin": JuServer::run; "tasks": processor and control loop
    pc,               \* where the shell side (the fan-in loop, the processor) is
    ctl_pc,           \* where the control loop of "tasks" is
    futs,             \* fan-in: the pending futures, per kind
    original_msg,     \* the execute_request whose evaluation is pending
    execution_count,
    uuids,            \* the Uuids drawn so far for the shell message in hand
    seg,              \* the events of the shell side since the last shell receive
    ctl_log,          \* the events of the control side since the last control receive
    ctl_replies,      \* the messages sent on the control channel in the run
    notify,           \* the Notify holds a permit
    want_restart,     \* the restart decision of the shutdown_request
    sp_result,        \* what JuShellProcessor::run returned
    ctl_result,       \* what the control loop returned
    run_result,       \* what the server's run returned
    n_shell,          \* messages received on the shell channel
    n_ctl,            \* messages received on the control channel
    shadow_ec,        \* execution_count of the run that is not given the failed requests
    shadow_seg,       \* seg of the run that is not given the failed requests
    n_accepted,       \* execute_requests with a code string received in the run
    upc,              \* where the construction, or the codec run, is; "off" in a server run
    ci,               \* the ConnectionInfo
    digester,         \* the Digester of the session
    out_msg,          \* the message handed to HBSocket::send
    wire,             \* the frames in flight
    peer,             \* the frames in flight are a peer's, not those that were sent
    decoded,          \* what HBSocket::recv returned
    derived,          \* the messages made for the decoded message
    n_sent,           \* messages sent, each with one call of digest
    bound,            \* the endpoints that are bound
    hb_task,          \* the heartbeat task is spawned
    new_result,       \* what the construction returned
    app_pc,           \* where the process loop of main.rs is; "off" outside a process run
    n_runs,           \* the server runs the process loop has started
    hb_log            \* the frames the heartbeat task received and sent back

vars == <<arch, pc, ctl_pc, futs, original_msg, execution_count, uuids, seg, ctl_log,
          ctl_replies, notify, want_restart, sp_result, ctl_result, run_result, n_shell, n_ctl,
          shadow_ec, shadow_seg, n_accepted, upc, ci, digester, out_msg, wire, peer, decoded,
          derived, n_sent, bound, hb_task, new_result, app_pc, n_runs, hb_log>>

shadow == <<shadow_ec, shadow_seg>>

(* the state of the construction and of the codec run                      *)
unit == <<upc, ci, digester, out_msg, wire, peer, decoded, derived, n_sent, bound, hb_task,
          new_result, app_pc, n_runs, hb_log>>

(* the state of the process loop and of the heartbeat task                 *)
process == <<app_pc, n_runs, hb_log>>

NoFuts == [shell |-> 0, control |-> 0, exec |-> 0]

(* the server as constructed, before run                                   *)
InitServer ==
    /\ pc = "init"
    /\ ctl_pc = "init"
    /\ futs = NoFuts
    /\ original_msg = NoMsg
    /\ execution_count = 0
    /\ uuids = 0
    /\ seg = <<>>
    /\ ctl_log = <<>>
    /\ ctl_replies = 0
    /\ notify = FALSE
    /\ want_restart = None
    /\ sp_result = None
    /\ ctl_result = None
    /\ run_result = None
    /\ n_shell = 0
    /\ n_ctl = 0
    /\ shadow_ec = 0
    /\ shadow_seg = <<>>
    /\ n_accepted = 0

(* a server run: the construction and the codec run take no step in it    *)
InitUnitOff ==
    /\ upc = "off"
    /\ ci = ConnectionInfo(<<>>, <<>>, Ports(1, 2, 3, 4))
    /\ digester = DigesterNone
    /\ out_msg = NoMsg
    /\ wire = <<>>
    /\ peer = FALSE
    /\ decoded = None
    /\ derived = None
    /\ n_sent = 0
    /\ bound = {}
    /\ hb_task = FALSE
    /\ new_result = None
    /\ app_pc = "off"
    /\ n_runs = 0
    /\ hb_log = <<>>

Init ==
    /\ arch \in {"fanin", "tasks"}
    /\ InitServer
    /\ InitUnitOff

(* an execute_request whose content.code is a string                       *)
AcceptedExecute(msg) ==
    /\ EqStr(Index(msg.header, s_msg_type), s_execute_request)
    /\ Index(msg.content, s_code).k = "str"

(* a request whose dispatch raised NoCode or UnsupportedMessageType        *)
FailedRequest(ev) ==
    \E i \in DOMAIN ev :
      ev[i].ev = "error" /\ ev[i].e.kind \in {"NoCode", "UnsupportedMessageType"}

(* The run that is not given the failed requests: it takes the machine sh  *)
(* the handler ended in from its own execution_count, and stays as it is   *)
(* when the request is a failed one.                                       *)
ShadowTakes(failed, events, sh) ==
    IF failed
    THEN UNCHANGED shadow
    ELSE shadow_ec' = sh.ec /\ shadow_seg' = events \o sh.ev

(***************************************************************************)
(* JuShellProcessor: new and run.                                          *)
(***************************************************************************)
(* the processor takes the machine st a handler ended in                   *)
ProcessorTakes(st, events) ==
    /\ uuids' = st.uuids
    /\ execution_count' = st.ec
    /\ seg' = events \o st.ev
    /\ IF st.ret.some
       THEN pc' = "done" /\ sp_result' = st.ret
       ELSE pc' = (IF st.eval.some THEN "eval" ELSE "wait") /\ sp_result' = sp_result

(* JuShellProcessor::new: the starting status                              *)
JuShellProcessor_new ==
    /\ arch = "tasks" /\ pc = "init"
    /\ \E F \in Failures(<<StartingOp>>) :
         LET st == Exec(<<StartingOp>>, 1, Machine(Handler("s", 0), uuids, execution_count, futs), F) IN
         /\ uuids' = st.uuids
         /\ seg' = seg \o st.ev
         /\ IF st.ret.some
            THEN pc' = "done" /\ sp_result' = st.ret
            ELSE pc' = "constructed" /\ sp_result' = sp_result
    /\ UNCHANGED <<arch, ctl_pc, futs, original_msg, execution_count, ctl_log, ctl_replies, notify,
                   want_restart, ctl_result, run_result, n_shell, n_ctl>>
    /\ UNCHANGED <<shadow, n_accepted>>
    /\ UNCHANGED unit

(* run, before the loop: the first idle status                             *)
JuShellProcessor_run_idle ==
    /\ arch = "tasks" /\ pc = "run"
    /\ \E F \in Failures(<<IdleOp>>) :
         ProcessorTakes(Exec(<<IdleOp>>, 1,
                             Machine(Handler("s", 0), uuids, execution_count, futs), F), seg)
    /\ UNCHANGED <<arch, ctl_pc, futs, original_msg, ctl_log, ctl_replies, notify, want_restart,
                   ctl_result, run_result, n_shell, n_ctl>>
    /\ UNCHANGED <<shadow, n_accepted>>
    /\ UNCHANGED unit

(* a notified arm that takes the permit and goes on waiting                *)
JuShellProcessor_run_notified_no_return ==
    /\ arch = "tasks" /\ pc = "wait" /\ notify
    /\ notify' = FALSE
    /\ UNCHANGED <<arch, pc, ctl_pc, futs, original_msg, execution_count, uuids, seg, ctl_log,
                   ctl_replies, want_restart, sp_result, ctl_result, run_result, n_shell, n_ctl>>
    /\ UNCHANGED <<shadow, n_accepted>>
    /\ UNCHANGED unit

(* run, select!: the arm of notify.notified()                              *)
JuShellProcessor_run_notified ==
    /\ arch = "tasks" /\ pc = "wait" /\ notify
    /\ notify' = FALSE
    /\ pc' = "done"
    /\ sp_result' = Some(Ok("unit"))
    /\ UNCHANGED <<arch, ctl_pc, futs, original_msg, execution_count, uuids, seg, ctl_log, ctl_replies,
                   want_restart, ctl_result, run_result, n_shell, n_ctl>>
    /\ UNCHANGED <<shadow, n_accepted>>
    /\ UNCHANGED unit

(* run, select!: the arm of shell_sock.recv()                              *)
JuShellProcessor_run_recv ==
    /\ arch = "tasks" /\ pc = "wait" /\ n_shell + n_ctl < MaxRecv
    /\ n_shell' = n_shell + 1
    /\ \E res \in ShellRecv[n_shell] :
         IF ~res.ok
         THEN /\ pc' = "done" /\ sp_result' = Some(res)
              /\ seg' = <<EvRecvFailed("shell", res.e)>>
              /\ UNCHANGED <<uuids, execution_count, original_msg, shadow, n_accepted>>
         ELSE LET msg == res.v
                  ops == run_recv(msg, execution_count)
              IN \E F \in Failures(ops) :
                   LET st == Exec(ops, 1, Machine(Handler("s", n_shell + 1), 0,
                                                  execution_count, futs), F) IN
                   /\ ProcessorTakes(st, <<EvRecv("shell", msg)>>)
                   /\ original_msg' = (IF st.eval.some /\ ~st.ret.some THEN msg ELSE NoMsg)
                   /\ n_accepted' = n_accepted + (IF AcceptedExecute(msg) THEN 1 ELSE 0)
                   /\ ShadowTakes(FailedRequest(st.ev), <<EvRecv("shell", msg)>>,
                                  Exec(run_recv(msg, shadow_ec), 1,
                                       Machine(Handler("s", n_shell + 1), 0,
                                               shadow_ec, futs), F))
    /\ UNCHANGED <<arch, ctl_pc, futs, ctl_log, ctl_replies, notify, want_restart, ctl_result,
                   run_result, n_ctl>>
    /\ UNCHANGED unit

(* run, when the kernel's eval_code returns                                *)
JuShellProcessor_run_eval_done ==
    /\ arch = "tasks" /\ pc = "eval"
    /\ \E eval_result \in KernelResults(Index(original_msg.content, s_code).s) :
         LET ops == run_resume(original_msg, eval_result, execution_count) IN
         \E F \in Failures(ops) :
           /\ ProcessorTakes(Exec(ops, 1, Machine(Handler("s", n_shell), uuids,
                                                  execution_count, futs), F),
                             Append(seg, EvEvalDone(eval_result)))
           /\ ShadowTakes(FALSE, Append(shadow_seg, EvEvalDone(eval_result)),
                          Exec(run_resume(original_msg, eval_result, shadow_ec), 1,
                               Machine(Handler("s", n_shell), uuids, shadow_ec, futs), F))
    /\ original_msg' = NoMsg
    /\ UNCHANGED <<arch, ctl_pc, futs, ctl_log, ctl_replies, notify, want_restart, ctl_result,
                   run_result, n_shell, n_ctl, n_accepted>>
    /\ UNCHANGED unit

(***************************************************************************)
(* The server of "tasks": JuServer::start and its control loop. Their code *)
(* is not in the source tree (main.rs calls JuServer::start, and           *)
(* JuShellProcessor takes the Notify); they are modelled from the design   *)
(* document: 4.6 Control Loop, 4.8 Server orchestration.                   *)
(***************************************************************************)
(* start: the control loop is spawned once the processor is constructed    *)
JuServer_start_spawn ==
    /\ arch = "tasks" /\ pc = "constructed"
    /\ pc' = "run"
    /\ ctl_pc' = "recv"
    /\ UNCHANGED <<arch, futs, original_msg, execution_count, uuids, seg, ctl_log, ctl_replies, notify,
                   want_restart, sp_result, ctl_result, run_result, n_shell, n_ctl>>
    /\ UNCHANGED <<shadow, n_accepted>>
    /\ UNCHANGED unit

(* the control loop, one message: a shutdown_request is replied to; any    *)
(* other message, and a message that cannot be decoded, is logged          *)
ControlLoop_ops(msg) ==
    LET msg_type == as_str(Index(msg.header, s_msg_type)) IN
    IF msg_type.some /\ msg_type.v = s_shutdown_request THEN
        LET b == as_bool(Index(msg.content, s_restart))
            restart == IF b.some THEN b.v ELSE FALSE
        IN <<SendOp("control", "reply", msg, <<>>,
                    Obj2(s_status, JStr(s_ok), s_restart, JBool(restart)), FALSE),
             ReturnOp(Ok(restart))>>
    ELSE IF msg_type.some
         THEN <<LogOp("warn", "Unsupported control message type")>>
         ELSE <<LogOp("error", "Control message missing msg_type field")>>

ControlLoop_recv ==
    /\ arch = "tasks" /\ ctl_pc = "recv" /\ n_shell + n_ctl < MaxRecv
    /\ n_ctl' = n_ctl + 1
    /\ \E res \in ControlRecv[n_ctl] :
         IF ~res.ok /\ res.e = ZmqError
         THEN /\ ctl_pc' = "done" /\ ctl_result' = Some(res)
              /\ ctl_log' = <<EvRecvFailed("control", res.e)>>
              /\ UNCHANGED <<want_restart, ctl_replies>>
         ELSE IF ~res.ok
         THEN /\ ctl_log' = <<EvRecvFailed("control", res.e), EvError(res.e)>>
              /\ UNCHANGED <<ctl_pc, ctl_result, want_restart, ctl_replies>>
         ELSE LET ops == ControlLoop_ops(res.v) IN
              \E F \in Failures(ops) :
                LET st == Exec(ops, 1, Machine(Handler("c", n_ctl + 1), 0, execution_count, futs), F) IN
                /\ ctl_log' = <<EvRecv("control", res.v)>> \o st.ev
                /\ ctl_replies' = ctl_replies + NSent(st.ev, "control")
                /\ IF st.ret.some /\ st.ret.v.ok
                   THEN /\ ctl_pc' = "signal"
                        /\ want_restart' = Some(st.ret.v.v)
                        /\ ctl_result' = ctl_result
                   ELSE IF st.ret.some
                   THEN ctl_pc' = "done" /\ ctl_result' = st.ret
                        /\ want_restart' = want_restart
                   ELSE UNCHANGED <<ctl_pc, ctl_result, want_restart>>
    /\ UNCHANGED <<arch, pc, futs, original_msg, execution_count, uuids, seg, notify,
                   sp_result, run_result, n_shell>>
    /\ UNCHANGED <<shadow, n_accepted>>
    /\ UNCHANGED unit

(* after the reply, cancellation is signalled to the processor, and the    *)
(* control loop ends with the restart decision                             *)
ControlLoop_signal ==
    /\ arch = "tasks" /\ ctl_pc = "signal"
    /\ notify' = TRUE
    /\ ctl_pc' = "done"
    /\ ctl_result' = Some(Ok(want_restart.v))
    /\ UNCHANGED <<arch, pc, futs, original_msg, execution_count, uuids, seg, ctl_log, ctl_replies,
                   want_restart, sp_result, run_result, n_shell, n_ctl>>
    /\ UNCHANGED <<shadow, n_accepted>>
    /\ UNCHANGED unit

(* start: both tasks are joined; the result is the control loop's, or the  *)
(* error of the task that failed                                           *)
JuServer_start_join ==
    /\ arch = "tasks" /\ run_result = None
    /\ pc = "done"
    /\ \/ /\ ctl_pc = "done"
          /\ run_result' = (IF ~sp_result.v.ok THEN sp_result ELSE ctl_result)
       \/ /\ ctl_pc = "init"
          /\ run_result' = sp_result
    /\ UNCHANGED <<arch, pc, ctl_pc, futs, original_msg, execution_count, uuids, seg,
                   ctl_log, ctl_replies, notify, want_restart, sp_result, ctl_result, n_shell, n_ctl>>
    /\ UNCHANGED <<shadow, n_accepted>>
    /\ UNCHANGED unit

(***************************************************************************)
(* JuServer::run (server.rs).                                              *)
(***************************************************************************)
(* the fan-in loop takes the machine st a handler ended in                 *)
FanInTakes(st) ==
    /\ execution_count' = st.ec
    /\ futs' = st.futs
    /\ IF st.ret.some
       THEN pc' = "done" /\ run_result' = st.ret
       ELSE pc' = pc /\ run_result' = run_result

(* run, before the loop: both sockets are locked and their receives pushed *)
JuServer_run_start ==
    /\ arch = "fanin" /\ pc = "init"
    /\ LET ops == <<TryLockOp("shell"), TryLockOp("control"),
                    PushRecvOp("shell"), PushRecvOp("control")>>
           st  == Exec(ops, 1, Machine(Handler("s", 0), uuids, execution_count, futs), {})
       IN /\ futs' = st.futs
          /\ IF st.ret.some
             THEN pc' = "done" /\ run_result' = st.ret
             ELSE pc' = "loop" /\ run_result' = run_result
    /\ UNCHANGED <<arch, ctl_pc, original_msg, execution_count, uuids, seg, ctl_log, ctl_replies,
                   notify, want_restart, sp_result, ctl_result, n_shell, n_ctl>>
    /\ UNCHANGED <<shadow, n_accepted>>
    /\ UNCHANGED unit

(* futs.next(): the futures that may complete next, None for an empty set  *)
FuturesNext(f) ==
    IF f.shell + f.control + f.exec = 0 THEN {"None"}
    ELSE {kind \in {"shell", "control", "exec"} : f[kind] > 0}

(* the error of the None arm of run                                        *)
NoMoreFutures == JuError("GeneralJukerError", "No more futures to process")

(* a future of the set has completed and is taken out of it                *)
Taken(kind) == [futs EXCEPT ![kind] = @ - 1]

(* run, futs.next(): a receive on the shell socket has completed           *)
JuServer_run_next_shell ==
    /\ arch = "fanin" /\ pc = "loop" /\ futs.shell > 0 /\ n_shell + n_ctl < MaxRecv
    /\ n_shell' = n_shell + 1
    /\ \E res \in ShellRecv[n_shell] :
         IF ~res.ok
         THEN /\ pc' = "done" /\ run_result' = Some(res)
              /\ futs' = Taken("shell")
              /\ seg' = <<EvRecvFailed("shell", res.e), EvError(res.e)>>
              /\ UNCHANGED <<uuids, execution_count, original_msg, shadow, n_accepted>>
         ELSE LET msg == res.v
                  ops == JuServer_run_shell(msg, execution_count)
              IN \E F \in Failures(ops) :
                   LET st == Exec(ops, 1, Machine(Handler("s", n_shell + 1), 0,
                                                  execution_count, Taken("shell")), F)
                   IN /\ FanInTakes(st)
                      /\ uuids' = st.uuids
                      /\ seg' = <<EvRecv("shell", msg)>> \o st.ev
                      /\ original_msg' = (IF st.futs.exec > 0 THEN msg ELSE NoMsg)
                      /\ n_accepted' = n_accepted + (IF AcceptedExecute(msg) THEN 1 ELSE 0)
                      /\ ShadowTakes(FailedRequest(st.ev), <<EvRecv("shell", msg)>>,
                                     Exec(JuServer_run_shell(msg, shadow_ec), 1,
                                          Machine(Handler("s", n_shell + 1), 0, shadow_ec,
                                                  Taken("shell")), F))
    /\ UNCHANGED <<arch, ctl_pc, ctl_log, ctl_replies, notify, want_restart, sp_result, ctl_result,
                   n_ctl>>
    /\ UNCHANGED unit

(* run, futs.next(): a receive on the control socket has completed         *)
JuServer_run_next_control ==
    /\ arch = "fanin" /\ pc = "loop" /\ futs.control > 0 /\ n_shell + n_ctl < MaxRecv
    /\ n_ctl' = n_ctl + 1
    /\ \E res \in ControlRecv[n_ctl] :
         IF ~res.ok
         THEN /\ pc' = "done" /\ run_result' = Some(res)
              /\ futs' = Taken("control")
              /\ ctl_log' = <<EvRecvFailed("control", res.e), EvError(res.e)>>
              /\ UNCHANGED <<uuids, execution_count, ctl_replies>>
         ELSE LET ops == JuServer_run_control(res.v) IN
              \E F \in Failures(ops) :
                LET st == Exec(ops, 1, Machine(Handler("c", n_ctl + 1), 0,
                                               execution_count, Taken("control")), F)
                IN /\ FanInTakes(st)
                   /\ uuids' = uuids
                   /\ ctl_log' = <<EvRecv("control", res.v)>> \o st.ev
                   /\ ctl_replies' = ctl_replies + NSent(st.ev, "control")
    /\ UNCHANGED <<arch, ctl_pc, original_msg, seg, notify, want_restart, sp_result,
                   ctl_result, n_shell>>
    /\ UNCHANGED <<shadow, n_accepted>>
    /\ UNCHANGED unit

(* run, futs.next(): the evaluation of the code has completed              *)
JuServer_run_next_execution ==
    /\ arch = "fanin" /\ pc = "loop" /\ futs.exec > 0
    /\ LET code        == Index(original_msg.content, s_code).s
           eval_result == eval_code(code)
           ops         == JuServer_run_execution(original_msg, eval_result, execution_count)
       IN \E F \in Failures(ops) :
            LET st == Exec(ops, 1, Machine(Handler("s", n_shell), uuids,
                                           execution_count, Taken("exec")), F)
            IN /\ FanInTakes(st)
               /\ uuids' = st.uuids
               /\ seg' = seg \o <<EvEval(code), EvEvalDone(eval_result)>> \o st.ev
               /\ ShadowTakes(FALSE,
                              shadow_seg \o <<EvEval(code), EvEvalDone(eval_result)>>,
                              Exec(JuServer_run_execution(original_msg, eval_result, shadow_ec),
                                   1, Machine(Handler("s", n_shell), uuids, shadow_ec,
                                              Taken("exec")), F))
    /\ original_msg' = NoMsg
    /\ UNCHANGED <<arch, ctl_pc, ctl_log, ctl_replies, notify, want_restart, sp_result, ctl_result,
                   n_shell, n_ctl, n_accepted>>
    /\ UNCHANGED unit

(***************************************************************************)
(* The specifications.                                                     *)
(***************************************************************************)
(* the server of processor and control loop                                *)
NextTasks ==
    \/ JuShellProcessor_new
    \/ JuServer_start_spawn
    \/ JuShellProcessor_run_idle
    \/ JuShellProcessor_run_notified
    \/ JuShellProcessor_run_recv
    \/ JuShellProcessor_run_eval_done
    \/ ControlLoop_recv
    \/ ControlLoop_signal
    \/ JuServer_start_join

(* the fan-in loop                                                         *)
NextFanIn ==
    \/ JuServer_run_start
    \/ JuServer_run_next_shell
    \/ JuServer_run_next_control
    \/ JuServer_run_next_execution

Next == NextTasks \/ NextFanIn

(* both servers *)
Spec == Init /\ [][Next]_vars
InitTasks == Init /\ arch = "tasks"
InitFanIn == Init /\ arch = "fanin"
SpecTasks == InitTasks /\ [][NextTasks]_vars
SpecFanIn == InitFanIn /\ [][NextFanIn]_vars

(* The server of tasks, scheduled fairly. select! picks among its ready    *)
(* branches at random, so a branch that is ready again and again is taken: *)
(* strong fairness of the notified arm. A spawned task that can run does   *)
(* run, and the kernel's eval_code returns: weak fairness of the first     *)
(* idle and of the return of the evaluation, written through their         *)
(* enabling conditions (each is enabled exactly when pc is "run", "eval",  *)
(* and each leaves that pc).                                               *)
FairTasks ==
    /\ SpecTasks
    /\ SF_vars(JuShellProcessor_run_notified)
    /\ []<>(pc # "run")
    /\ []<>(pc # "eval")

(***************************************************************************)
(* The codec run: a session is built from a ConnectionInfo                 *)
(* (JuServerId::new), a message is sent (HBSocket::send), the frames in    *)
(* flight are received as they are or as a peer made them                  *)
(* (HBSocket::recv), and the messages for the decoded one are made         *)
(* (new_message, new_derived_message, new_reply_message); the reply is the *)
(* next message sent.                                                      *)
(***************************************************************************)
(* messages sent in one codec run, so calls of digest on one Digester      *)
MaxSends == 2

CodecConnectionInfos ==
    { ConnectionInfo(<<>>, s_secret, Ports(1, 2, 3, 4)),
      ConnectionInfo(s_hmac_sha256, s_secret, Ports(1, 2, 3, 4)),
      ConnectionInfo(s_hmac_sha256, s_key2, Ports(1, 2, 3, 4)),
      ConnectionInfo(s_md5, s_secret, Ports(1, 2, 3, 4)) }

(* the routing ids of a message: none, one hop, two hops, an empty         *)
(* identity, an identity that is the delimiter                             *)
CodecIds ==
    { <<>>,
      <<Raw(s_peer)>>,
      <<Raw(s_hop), Raw(s_peer)>>,
      <<EmptyBytes, Raw(s_peer)>>,
      <<Raw(s_peer), DELIMITER>> }

CodecHeaders ==
    { ClientHeader(0, s_execute_request),
      ClientHeader(0, s_x_request_request),
      ClientHeader(0, s_status),
      Obj1(s_msg_type, JNum(1)),
      EmptyObj }

(* parent_header, metadata, content                                        *)
CodecDocuments ==
    { <<EmptyObj, EmptyObj, EmptyObj>>,
      <<ClientHeader(1, s_kernel_info_request), EmptyObj, Obj1(s_code, JStr(s_two_plus_two))>>,
      <<EmptyObj, Obj1(s_data, JArr(<<JNum(1), JBool(TRUE), JNull>>)),
        Obj2(s_restart, JBool(FALSE), s_data, Obj1(s_text_plain, JArr(<<>>)))>>,
      <<JNull, JStr(s_yes), JArr(<<JStr(s_err), EmptyObj>>)>> }

CodecMessages ==
    { JuMessage(ids, header, docs[1], docs[2], docs[3]) :
        ids \in CodecIds, header \in CodecHeaders, docs \in CodecDocuments }

InitCodec ==
    /\ arch = "codec"
    /\ InitServer
    /\ upc = "id"
    /\ ci \in CodecConnectionInfos
    /\ digester = DigesterNone
    /\ out_msg \in CodecMessages
    /\ wire = <<>>
    /\ peer = FALSE
    /\ decoded = None
    /\ derived = None
    /\ n_sent = 0
    /\ bound = {}
    /\ hb_task = FALSE
    /\ new_result = None
    /\ app_pc = "off"
    /\ n_runs = 0
    /\ hb_log = <<>>

server ==
    <<arch, pc, ctl_pc, futs, original_msg, execution_count, uuids, seg, ctl_log, ctl_replies,
      notify, want_restart, sp_result, ctl_result, run_result, n_shell, n_ctl, shadow_ec,
      shadow_seg, n_accepted>>

(* JuServerId::new: let digester = Digester::new(&ci)?;                    *)
JuServerId_new ==
    /\ upc = "id"
    /\ LET r == Digester_new(ci) IN
       IF r.ok
       THEN upc' = "msg" /\ digester' = r.v /\ new_result' = new_result
       ELSE upc' = "failed" /\ digester' = digester /\ new_result' = Some(r)
    /\ UNCHANGED <<ci, out_msg, wire, peer, decoded, derived, n_sent, bound, hb_task>>
    /\ UNCHANGED server
    /\ UNCHANGED process

(* HBSocket::send: msg.to_zmq_message(digester), then the transport        *)
HBSocket_send ==
    /\ upc = "msg"
    /\ upc' = "wire"
    /\ wire' = to_zmq_message(out_msg, digester)
    /\ digester' = digest_self(digester, to_vec(out_msg.header), to_vec(out_msg.parent_header),
                               to_vec(out_msg.metadata), to_vec(out_msg.content))
    /\ n_sent' = n_sent + 1
    /\ peer' = FALSE
    /\ UNCHANGED <<ci, out_msg, decoded, derived, bound, hb_task, new_result>>
    /\ UNCHANGED server
    /\ UNCHANGED process

(* What a peer may put on the wire in place of frames w whose delimiter is *)
(* the frame d: w without the delimiter; w cut after the delimiter, the    *)
(* signature, the header, the parent header, the metadata; w with another  *)
(* signature; w with a document that is no JSON, whole or cut after the    *)
(* next frame; w with frames after the content.                            *)
ForgedSignatures ==
    { EmptyBytes, Raw(s_secret),
      digest(HmacSha256(s_key2), to_vec(EmptyObj), to_vec(EmptyObj), to_vec(EmptyObj),
             to_vec(EmptyObj)) }
InvalidJson == { <<Tok("{")>>, Raw(s_peer), EmptyBytes, <<TNum(1), TNum(2)>> }
PeerFrames(w, d) ==
    { SubSeq(w, 1, d - 1) \o SubSeq(w, d + 1, Len(w)) }
    \cup { SubSeq(w, 1, d + j) : j \in 0..4 }
    \cup { [w EXCEPT ![d + 1] = sig] : sig \in ForgedSignatures }
    \cup { [w EXCEPT ![d + j] = b] : j \in 2..5, b \in InvalidJson }
    \cup { SubSeq([w EXCEPT ![d + j] = <<Tok("{")>>], 1, d + j + 1) : j \in 2..3 }
    \cup { w \o <<DELIMITER, EmptyBytes>> }

(* a peer's frames take the place of the frames that were sent             *)
Peer_frames ==
    /\ upc = "wire" /\ ~peer
    /\ peer' = TRUE
    /\ wire' \in PeerFrames(wire, Len(out_msg.zmq_ids) + 1) \ {wire}
    /\ UNCHANGED <<upc, ci, digester, out_msg, decoded, derived, n_sent, bound, hb_task,
                   new_result>>
    /\ UNCHANGED server
    /\ UNCHANGED process

(* HBSocket::recv, of the frames in flight                                 *)
HBSocket_recv ==
    /\ upc = "wire"
    /\ upc' = "recvd"
    /\ decoded' = Some(recv(Ok(wire)))
    /\ UNCHANGED <<ci, digester, out_msg, wire, peer, derived, n_sent, bound, hb_task,
                   new_result>>
    /\ UNCHANGED server
    /\ UNCHANGED process

(* the messages the session makes for a decoded message                    *)
JuServerId_derive ==
    /\ upc = "recvd" /\ decoded.v.ok
    /\ upc' = "derived"
    /\ LET h == Handler("s", n_sent) IN
       derived' = Some([new     |-> new_message(s_status, <<h, 0>>),
                        derived |-> new_derived_message(decoded.v.v, s_execute_input, <<h, 1>>),
                        reply   |-> new_reply_message(decoded.v.v, <<h, 2>>)])
    /\ UNCHANGED <<ci, digester, out_msg, wire, peer, decoded, n_sent, bound, hb_task,
                   new_result>>
    /\ UNCHANGED server
    /\ UNCHANGED process

(* the reply is the next message to send                                   *)
Codec_next ==
    /\ upc = "derived" /\ n_sent < MaxSends
    /\ upc' = "msg"
    /\ out_msg' = derived.v.reply
    /\ wire' = <<>>
    /\ peer' = FALSE
    /\ decoded' = None
    /\ derived' = None
    /\ UNCHANGED <<ci, digester, n_sent, bound, hb_task, new_result>>
    /\ UNCHANGED server
    /\ UNCHANGED process

NextCodec ==
    \/ JuServerId_new
    \/ HBSocket_send
    \/ Peer_frames
    \/ HBSocket_recv
    \/ JuServerId_derive
    \/ Codec_next

SpecCodec == InitCodec /\ [][NextCodec]_vars

(***************************************************************************)
(* The construction of the server, JuServer::new (server.rs 28-54), step   *)
(* by step: the digester, the heartbeat socket, the heartbeat task, the    *)
(* shell, control and iopub sockets. An endpoint is its port: transport    *)
(* and ip are those of the one ConnectionInfo. A bind of an endpoint that  *)
(* is bound fails; any other bind succeeds or fails, as the transport      *)
(* decides.                                                                *)
(***************************************************************************)
NewSchemes == { <<>>, s_hmac_sha256, s_md5, s_HMAC_SHA256, s_hmac_sha512, s_sha256 }
NewKeys == { <<>>, s_secret }
NewPorts == { Ports(1, 2, 3, 4), Ports(1, 2, 2, 4), Ports(1, 1, 3, 4) }
NewConnectionInfos ==
    { ConnectionInfo(scheme, key, ports) :
        scheme \in NewSchemes, key \in NewKeys, ports \in NewPorts }

InitNew ==
    /\ arch = "new"
    /\ InitServer
    /\ upc = "new"
    /\ ci \in NewConnectionInfos
    /\ digester = DigesterNone
    /\ out_msg = NoMsg
    /\ wire = <<>>
    /\ peer = FALSE
    /\ decoded = None
    /\ derived = None
    /\ n_sent = 0
    /\ bound = {}
    /\ hb_task = FALSE
    /\ new_result = None
    /\ app_pc = "off"
    /\ n_runs = 0
    /\ hb_log = <<>>

(* Socket::bind, from HBSocket::new (sockets.rs 28-34)                     *)
AddrInUse == JuError("ZmqError", "address in use")
BindOutcomes(port) ==
    IF port \in bound THEN {Err(AddrInUse)} ELSE {Ok(port), Err(ZmqError)}

(* `?` in JuServer::new: the sockets the function holds are dropped, the   *)
(* socket moved into the heartbeat task stays                              *)
JuServer_new_fails(e) ==
    /\ upc' = "returned"
    /\ new_result' = Some(e)
    /\ bound' = IF hb_task THEN {ci.hb_port} ELSE {}

(* a socket of JuServer::new is bound, and the next step is at next_pc     *)
JuServer_new_binds(port, next_pc) ==
    \E r \in BindOutcomes(port) :
        IF r.ok
        THEN upc' = next_pc /\ bound' = bound \cup {r.v} /\ new_result' = new_result
        ELSE JuServer_new_fails(r)

(* let digester = Digester::new(&ci)?;                                     *)
JuServer_new_digester ==
    /\ upc = "new"
    /\ LET r == Digester_new(ci) IN
       IF r.ok
       THEN upc' = "hb_bind" /\ digester' = r.v /\ new_result' = new_result /\ bound' = bound
       ELSE digester' = digester /\ JuServer_new_fails(r)
    /\ UNCHANGED <<ci, out_msg, wire, peer, decoded, derived, n_sent, hb_task>>
    /\ UNCHANGED server
    /\ UNCHANGED process

(* let mut hb_socket = HBSocket::new(&ci, ci.hb_port).await?;              *)
JuServer_new_hb ==
    /\ upc = "hb_bind"
    /\ JuServer_new_binds(ci.hb_port, "hb_spawn")
    /\ UNCHANGED <<ci, digester, out_msg, wire, peer, decoded, derived, n_sent, hb_task>>
    /\ UNCHANGED server
    /\ UNCHANGED process

(* tokio::spawn(async move { hb_socket.run().await?; ... });               *)
JuServer_new_spawn ==
    /\ upc = "hb_spawn"
    /\ upc' = "shell_bind"
    /\ hb_task' = TRUE
    /\ UNCHANGED <<ci, digester, out_msg, wire, peer, decoded, derived, n_sent, bound,
                   new_result>>
    /\ UNCHANGED server
    /\ UNCHANGED process

(* let shell_sock = ... HBSocket::new(&ci, ci.shell_port).await?           *)
JuServer_new_shell ==
    /\ upc = "shell_bind"
    /\ JuServer_new_binds(ci.shell_port, "control_bind")
    /\ UNCHANGED <<ci, digester, out_msg, wire, peer, decoded, derived, n_sent, hb_task>>
    /\ UNCHANGED server
    /\ UNCHANGED process

(* let control_sock = ... HBSocket::new(&ci, ci.control_port).await?       *)
JuServer_new_control ==
    /\ upc = "control_bind"
    /\ JuServer_new_binds(ci.control_port, "iopub_bind")
    /\ UNCHANGED <<ci, digester, out_msg, wire, peer, decoded, derived, n_sent, hb_task>>
    /\ UNCHANGED server
    /\ UNCHANGED process

(* let iopub_sock = HBSocket::new(&ci, ci.iopub_port).await?;              *)
JuServer_new_iopub ==
    /\ upc = "iopub_bind"
    /\ JuServer_new_binds(ci.iopub_port, "ok")
    /\ UNCHANGED <<ci, digester, out_msg, wire, peer, decoded, derived, n_sent, hb_task>>
    /\ UNCHANGED server
    /\ UNCHANGED process

(* Ok(Self { shell_sock, control_sock, iopub_sock, digester, ... })        *)
JuServer_new_ok ==
    /\ upc = "ok"
    /\ upc' = "returned"
    /\ new_result' = Some(Ok([digester |-> digester, execution_count |-> execution_count]))
    /\ UNCHANGED <<ci, digester, out_msg, wire, peer, decoded, derived, n_sent, bound, hb_task>>
    /\ UNCHANGED server
    /\ UNCHANGED process

NextNew ==
    \/ JuServer_new_digester
    \/ JuServer_new_hb
    \/ JuServer_new_spawn
    \/ JuServer_new_shell
    \/ JuServer_new_control
    \/ JuServer_new_iopub
    \/ JuServer_new_ok

SpecNew == InitNew /\ [][NextNew]_vars

(***************************************************************************)
(* The process: the loop of JupyterApplication::run (main.rs 51-68) around *)
(* the server of server.rs, and the heartbeat task that JuServer::new      *)
(* spawns (server.rs 32-36, sockets.rs 38-44). JuServer::start, which the  *)
(* loop calls, is JuServer::new followed by run.                           *)
(***************************************************************************)
(* server runs one process starts                                          *)
MaxRuns == 2
(* messages the heartbeat tasks of one process are sent                    *)
MaxBeats == 2

ProcessConnectionInfos ==
    { ConnectionInfo(<<>>, <<>>, Ports(1, 2, 3, 4)),
      ConnectionInfo(s_md5, s_secret, Ports(1, 2, 3, 4)) }
HBFrames == { <<Raw(s_peer)>>, <<Raw(s_hop), EmptyBytes>> }

InitProcess ==
    /\ arch = "fanin"
    /\ pc = "off"
    /\ ctl_pc = "init"
    /\ futs = NoFuts
    /\ original_msg = NoMsg
    /\ execution_count = 0
    /\ uuids = 0
    /\ seg = <<>>
    /\ ctl_log = <<>>
    /\ ctl_replies = 0
    /\ notify = FALSE
    /\ want_restart = None
    /\ sp_result = None
    /\ ctl_result = None
    /\ run_result = None
    /\ n_shell = 0
    /\ n_ctl = 0
    /\ shadow_ec = 0
    /\ shadow_seg = <<>>
    /\ n_accepted = 0
    /\ upc = "off"
    /\ ci \in ProcessConnectionInfos
    /\ digester = DigesterNone
    /\ out_msg = NoMsg
    /\ wire = <<>>
    /\ peer = FALSE
    /\ decoded = None
    /\ derived = None
    /\ n_sent = 0
    /\ bound = {}
    /\ hb_task = FALSE
    /\ new_result = None
    /\ app_pc = "loop"
    /\ n_runs = 0
    /\ hb_log = <<>>

(* loop { let res = JuServer::start(&ci, eva).await; ..: the construction  *)
(* of the server begins                                                    *)
JupyterApplication_run_start ==
    /\ app_pc = "loop" /\ n_runs < MaxRuns
    /\ app_pc' = "start"
    /\ n_runs' = n_runs + 1
    /\ upc' = "new"
    /\ new_result' = None
    /\ run_result' = None
    /\ UNCHANGED <<arch, pc, ctl_pc, futs, original_msg, execution_count, uuids, seg, ctl_log,
                   ctl_replies, notify, want_restart, sp_result, ctl_result, n_shell, n_ctl>>
    /\ UNCHANGED <<shadow, n_accepted>>
    /\ UNCHANGED <<ci, digester, out_msg, wire, peer, decoded, derived, n_sent, bound, hb_task,
                   hb_log>>

(* start: the server that new returned is run, from the state new gives it *)
JuServer_start_run ==
    /\ app_pc = "start" /\ upc = "returned" /\ new_result.v.ok
    /\ upc' = "off"
    /\ pc' = "init"
    /\ futs' = NoFuts
    /\ original_msg' = NoMsg
    /\ execution_count' = new_result.v.v.execution_count
    /\ uuids' = 0
    /\ seg' = <<>>
    /\ ctl_log' = <<>>
    /\ ctl_replies' = 0
    /\ shadow_ec' = 0
    /\ shadow_seg' = <<>>
    /\ n_accepted' = 0
    /\ UNCHANGED <<arch, ctl_pc, notify, want_restart, sp_result, ctl_result, run_result, n_shell,
                   n_ctl>>
    /\ UNCHANGED <<ci, digester, out_msg, wire, peer, decoded, derived, n_sent, bound, hb_task,
                   new_result>>
    /\ UNCHANGED process

(* what start returned: the error of new, or what run returned             *)
StartResult ==
    IF upc = "returned" /\ ~new_result.v.ok THEN new_result
    ELSE IF pc = "done" THEN run_result
    ELSE None

(* match &res: Ok(true) => continue; Ok(false) and Err(e) => break. The    *)
(* server is dropped, and with it its shell, control and iopub sockets;    *)
(* the heartbeat socket is the heartbeat task's.                           *)
JupyterApplication_run_result ==
    /\ app_pc = "start" /\ StartResult.some
    /\ app_pc' = (IF StartResult.v = Ok(TRUE) THEN "loop" ELSE "exited")
    /\ bound' = (IF hb_task THEN {ci.hb_port} ELSE {})
    /\ pc' = "off"
    /\ upc' = "off"
    /\ UNCHANGED <<arch, ctl_pc, futs, original_msg, execution_count, uuids, seg, ctl_log,
                   ctl_replies, notify, want_restart, sp_result, ctl_result, run_result, n_shell,
                   n_ctl>>
    /\ UNCHANGED <<shadow, n_accepted>>
    /\ UNCHANGED <<ci, digester, out_msg, wire, peer, decoded, derived, n_sent, hb_task,
                   new_result, n_runs, hb_log>>

(* a heartbeat loop that goes on after an error                            *)
HBSocket_run_turn_retry(res, send_ok) ==
    IF ~res.ok THEN [recv |-> res, sent |-> None, running |-> TRUE]
    ELSE IF send_ok THEN [recv |-> res, sent |-> Some(res.v), running |-> TRUE]
    ELSE [recv |-> res, sent |-> None, running |-> TRUE]

(* HBSocket::run, one turn of the loop: self.sock.recv().await?, then      *)
(* self.sock.send(msg).await?                                              *)
HBSocket_run_turn(res, send_ok) ==
    IF ~res.ok THEN [recv |-> res, sent |-> None, running |-> FALSE]
    ELSE IF send_ok THEN [recv |-> res, sent |-> Some(res.v), running |-> TRUE]
    ELSE [recv |-> res, sent |-> None, running |-> FALSE]

(* the heartbeat task: a turn of HBSocket::run; with an error the task     *)
(* ends (`hb_socket.run().await?`) and its socket is dropped               *)
HBSocket_run ==
    /\ app_pc # "off" /\ hb_task /\ Len(hb_log) < MaxBeats
    /\ \E res \in {Ok(m) : m \in HBFrames} \cup {Err(ZmqError)}, send_ok \in BOOLEAN :
         LET turn == HBSocket_run_turn(res, send_ok) IN
         /\ hb_log' = Append(hb_log, turn)
         /\ hb_task' = turn.running
         /\ bound' = (IF turn.running THEN bound ELSE bound \ {ci.hb_port})
    /\ UNCHANGED <<upc, ci, digester, out_msg, wire, peer, decoded, derived, n_sent, new_result,
                   app_pc, n_runs>>
    /\ UNCHANGED server

NextProcess ==
    \/ JupyterApplication_run_start
    \/ JuServer_new_digester
    \/ JuServer_new_hb
    \/ JuServer_new_spawn
    \/ JuServer_new_shell
    \/ JuServer_new_control
    \/ JuServer_new_iopub
    \/ JuServer_new_ok
    \/ JuServer_start_run
    \/ JuServer_run_start
    \/ JuServer_run_next_shell
    \/ JuServer_run_next_control
    \/ JuServer_run_next_execution
    \/ HBSocket_run
    \/ JupyterApplication_run_result

SpecProcess == InitProcess /\ [][NextProcess]_vars

(***************************************************************************)
(* What the events of a request show.                                      *)
(***************************************************************************)
Last(s) == s[Len(s)]
MsgTypeOf(m) == Index(m.header, s_msg_type)
IsType(m, msg_type) == MsgTypeOf(m) = JStr(msg_type)
IsStatus(m, state) == IsType(m, s_status) /\ m.content = ExecutionState(state)
(* a send on chan, which the transport may have failed                     *)
Attempted(e, chan) == e.ev \in {"send", "send_failed"} /\ e.chan = chan
Sent(e, chan) == e.ev = "send" /\ e.chan = chan
IsPub(e) == Sent(e, "iopub")
IsFailure(e) == e.ev = "send_failed"
(* the shell side has received a request, the first event of seg           *)
Requested == seg # <<>> /\ seg[1].ev = "recv"
Request == seg[1].msg
(* the evaluation of the request's code is pending                         *)
Evaluating == pc = "eval" \/ futs.exec > 0
(* the shell side waits for the next request                               *)
Waiting ==
    \/ arch = "tasks" /\ pc = "wait"
    \/ arch = "fanin" /\ pc = "loop" /\ futs.shell > 0
(* the loop was ended from the control side                                *)
EndedFromControl ==
    /\ pc = "done"
    /\ arch = "tasks" => sp_result = Some(Ok("unit"))
    /\ arch = "fanin" => ctl_log # <<>>

(***************************************************************************)
(* C1. For every request the shell loop receives, busy is published before *)
(* the request is dispatched, and idle is published after the dispatch has *)
(* ended, whatever its outcome (NoCode, UnsupportedMessageType, a failed   *)
(* reply or notification): the last thing attempted for the request is the *)
(* idle status, and once idle is out the loop waits for the next request.  *)
(* The fan-in loop breaks it: a reply that fails to be sent ends the run   *)
(* (server.rs 99-102, 188-191), with no idle.                              *)
(***************************************************************************)
C1_BusyIdleBracket ==
    Requested =>
      /\ Len(seg) >= 2
      /\ Attempted(seg[2], "iopub")
      /\ IsStatus(seg[2].msg, s_busy)
      /\ seg[2].msg.parent_header = Request.header
      /\ IsFailure(seg[2]) => Len(seg) = 2
      /\ (~IsFailure(seg[2]) /\ ~Evaluating) =>
           /\ Len(seg) > 2
           /\ Attempted(Last(seg), "iopub")
           /\ IsStatus(Last(seg).msg, s_idle)
           /\ ~IsFailure(Last(seg)) => (Waiting \/ EndedFromControl)


(***************************************************************************)
(* C2. For an execute_request whose code is a string, the notifications    *)
(* are published in the order busy, execute_input, then one execute_result *)
(* per value of the evaluation or one error, then idle; all of them but    *)
(* the idle carry the header of this request as parent, so none of another *)
(* request comes in between. (When the transport fails a send, what was    *)
(* published is that order cut short, idle possibly after it.)             *)
(***************************************************************************)
IsPrefix(a, b) == Len(a) <= Len(b) /\ SubSeq(b, 1, Len(a)) = a
Kind(m) == IF IsType(m, s_status) THEN Index(m.content, s_execution_state) ELSE MsgTypeOf(m)
Pubs == SelectSeq(seg, IsPub)
PubKinds == [i \in DOMAIN Pubs |-> Kind(Pubs[i].msg)]
IsEvalDone(e) == e.ev = "eval_done"
EvalDone == SelectSeq(seg, IsEvalDone)
Outcome ==
    IF EvalDone = <<>> THEN <<>>
    ELSE IF EvalDone[1].eval_result.tag = "Success"
         THEN Repeat(JStr(s_execute_result), Len(EvalDone[1].eval_result.results))
         ELSE <<JStr(s_error)>>
NoFailure == \A i \in DOMAIN seg : ~IsFailure(seg[i])
Accepted ==
    /\ Requested
    /\ IsType(Request, s_execute_request)
    /\ Index(Request.content, s_code).k = "str"
WithoutIdle(kinds) ==
    IF kinds # <<>> /\ Last(kinds) = JStr(s_idle) THEN SubSeq(kinds, 1, Len(kinds) - 1)
    ELSE kinds

C2_NotificationOrder ==
    Accepted =>
      /\ IsPrefix(WithoutIdle(PubKinds), <<JStr(s_busy), JStr(s_execute_input)>> \o Outcome)
      /\ \A i \in DOMAIN Pubs :
           Kind(Pubs[i].msg) # JStr(s_idle) => Pubs[i].msg.parent_header = Request.header
      /\ (NoFailure /\ ~Evaluating) =>
           PubKinds = <<JStr(s_busy), JStr(s_execute_input)>> \o Outcome \o <<JStr(s_idle)>>

(* an execute_request has given two results, all published, idle after     *)
C2_Witness ==
    /\ Accepted /\ NoFailure /\ ~Evaluating
    /\ Len(Outcome) = 2
    /\ Len(Pubs) = 5

(***************************************************************************)
(* C3. At most one execute_request is in flight: the shell side receives   *)
(* the next shell message only when no evaluation is pending and the idle  *)
(* of the request before has been published; there is never more than one *)
(* pending evaluation, and while one is pending no receive on the shell    *)
(* socket is.                                                              *)
(***************************************************************************)
BracketClosed ==
    Requested => (Sent(Last(seg), "iopub") /\ IsStatus(Last(seg).msg, s_idle))

C3_OneExecuteInFlight ==
    /\ [](futs.exec <= 1 /\ (futs.exec > 0 => futs.shell = 0))
    /\ [][n_shell' # n_shell => (~Evaluating /\ original_msg = NoMsg /\ BracketClosed)]_vars

(* a second execute_request is being evaluated, after the first is over    *)
C3_Witness ==
    /\ Evaluating /\ run_result = None
    /\ n_shell = 2 /\ execution_count = 2
    /\ Accepted

(***************************************************************************)
(* C4. An execute_request in flight runs to completion: the run does not   *)
(* end on a shutdown while the evaluation is pending. The fan-in loop      *)
(* breaks it: its shutdown arm returns at once (server.rs 135-154), which  *)
(* drops the pending evaluation with the future set.                       *)
(***************************************************************************)
C4_InFlightRunsToCompletion ==
    (run_result # None /\ run_result.v.ok) => ~Evaluating


(***************************************************************************)
(* C5. Once cancellation is signalled, the processor's loop eventually     *)
(* returns, also when the signal is raised while a request is being        *)
(* processed; the step that observes the signal returns Ok, publishes      *)
(* nothing and sends no reply, and nothing is sent after the loop has      *)
(* returned.                                                               *)
(***************************************************************************)
C5_CancellationEndsProcessor ==
    /\ notify ~> (pc = "done")
    /\ [][(notify /\ ~notify') =>
            (pc' = "done" /\ sp_result' = Some(Ok("unit"))
             /\ seg' = seg /\ uuids' = uuids)]_vars
    /\ [][pc = "done" => (seg' = seg /\ uuids' = uuids)]_vars

(* the processor has returned on the signal, after an evaluation           *)
C5_Witness ==
    /\ arch = "tasks" /\ pc = "done" /\ sp_result = Some(Ok("unit")) /\ ~notify
    /\ Accepted /\ EvalDone # <<>>
    /\ want_restart # None


(***************************************************************************)
(* C6. A shutdown_request on the control channel of the fan-in loop gets   *)
(* one reply, a shutdown_reply to it with status ok and restart = r, and   *)
(* the run ends with Ok(r), where r is content.restart when that is a      *)
(* boolean and false otherwise. (When the transport fails the send of the  *)
(* reply, there is no reply and the run ends with that error.)             *)
(***************************************************************************)
ShutdownIn(log) ==
    log # <<>> /\ log[1].ev = "recv" /\ IsType(log[1].msg, s_shutdown_request)
RestartOf(msg) ==
    LET r == Index(msg.content, s_restart) IN IF r.k = "bool" THEN r.b ELSE FALSE

C6_ShutdownReply ==
    ShutdownIn(ctl_log) =>
      LET r == RestartOf(ctl_log[1].msg) IN
      /\ Len(ctl_log) = 2
      /\ Attempted(ctl_log[2], "control")
      /\ IsType(ctl_log[2].msg, s_shutdown_reply)
      /\ ctl_log[2].msg.parent_header = ctl_log[1].msg.header
      /\ ctl_log[2].msg.content = Obj2(s_status, JStr(s_ok), s_restart, JBool(r))
      /\ IF IsFailure(ctl_log[2])
         THEN ctl_replies = 0 /\ run_result = Some(Err(ZmqError))
         ELSE ctl_replies = 1 /\ run_result = Some(Ok(r))

(* a shutdown_request whose restart is the string "yes" has ended the run  *)
(* with false                                                              *)
C6_Witness ==
    /\ ShutdownIn(ctl_log)
    /\ Index(ctl_log[1].msg.content, s_restart) = JStr(s_yes)
    /\ ctl_replies = 1
    /\ run_result = Some(Ok(FALSE))

(***************************************************************************)
(* C7. The control channel makes progress independently of the shell       *)
(* side: while the loop runs, and so while a code is being evaluated, a    *)
(* receive on the control socket is pending; and a control message that    *)
(* arrives during an evaluation is handled in full, a shutdown_request     *)
(* replied to, with the evaluation still pending and the shell side        *)
(* untouched.                                                              *)
(***************************************************************************)
C7_ControlIndependent ==
    /\ []((arch = "fanin" /\ pc = "loop") => futs.control = 1)
    /\ []((arch = "tasks" /\ pc \in {"run", "wait", "eval"} /\ ctl_log = <<>>)
            => ctl_pc = "recv")
    /\ [][(n_ctl' # n_ctl /\ Evaluating) =>
            /\ Evaluating' /\ seg' = seg
            /\ ShutdownIn(ctl_log') =>
                 (Len(ctl_log') = 2 /\ Attempted(ctl_log'[2], "control"))]_vars

(* a shutdown_reply was sent while the code was being evaluated            *)
C7_Witness ==
    /\ Evaluating /\ Accepted /\ EvalDone = <<>>
    /\ ShutdownIn(ctl_log)
    /\ ctl_replies = 1

(***************************************************************************)
(* C8. An execute_request whose content.code is absent or not a string     *)
(* fails with NoCode: nothing but status is published for it (no           *)
(* execute_input, execute_result or error), eval_code is not called, and   *)
(* busy before it and idle after it are both published.                    *)
(***************************************************************************)
NoCodeRequest ==
    /\ Requested
    /\ IsType(Request, s_execute_request)
    /\ Index(Request.content, s_code).k # "str"

C8_NoCode ==
    NoCodeRequest =>
      /\ ~Evaluating
      /\ \A i \in DOMAIN seg : seg[i].ev \notin {"eval", "eval_done"}
      /\ \A i \in DOMAIN seg : Attempted(seg[i], "iopub") => IsType(seg[i].msg, s_status)
      /\ Sent(seg[2], "iopub") => (\E i \in DOMAIN seg : seg[i] = EvError(NoCode))
      /\ NoFailure => PubKinds = <<JStr(s_busy), JStr(s_idle)>>

(* an execute_request whose code is the number 1 has failed, between busy  *)
(* and idle                                                                *)
C8_Witness ==
    /\ NoCodeRequest /\ NoFailure
    /\ Index(Request.content, s_code) = JNum(1)
    /\ Len(Pubs) = 2

(***************************************************************************)
(* C9. A shell request with an unknown msg_type, or an execute_request     *)
(* without a code string, does not end the shell loop and gets no reply;   *)
(* and a request that is not such a failed one is processed exactly as in  *)
(* the run that was not given the failed requests before it: same reply,   *)
(* same notifications. The code breaks the second part: execution_count is *)
(* incremented before the code is looked for (shell_processor.rs 134,      *)
(* server.rs 287), so the failed execute_request shows in the              *)
(* execution_count of the next one.                                        *)
(***************************************************************************)
C9_FailedRequestLeavesNoTrace ==
    /\ (Requested /\ FailedRequest(seg)) =>
         /\ \A i \in DOMAIN seg : ~Attempted(seg[i], "shell")
         /\ NoFailure => (Waiting \/ EndedFromControl)
    /\ (Requested /\ ~FailedRequest(seg)) => seg = shadow_seg

(***************************************************************************)
(* C10. A malformed inbound message (no delimiter, a missing frame,        *)
(* invalid JSON) on the shell or control channel is a per-message failure: *)
(* the loop that received it goes on receiving, and no run ends with the   *)
(* decode failure. The code breaks it: the failure of recv is propagated   *)
(* (shell_processor.rs 73; server.rs 123-126, 164-167).                    *)
(***************************************************************************)
DecodeFailure(log) ==
    log # <<>> /\ log[1].ev = "recv_failed" /\ log[1].e # ZmqError
EndedWithDecodeFailure(r) ==
    r # None /\ ~r.v.ok /\ r.v.e.kind \in {"MalformedMessage", "JsonError"}

C10_MalformedIsPerMessage ==
    /\ DecodeFailure(seg) => (Waiting \/ EndedFromControl)
    /\ DecodeFailure(ctl_log) =>
         \/ arch = "tasks" /\ ctl_pc = "recv"
         \/ arch = "fanin" /\ pc = "loop" /\ futs.control > 0
    /\ ~EndedWithDecodeFailure(sp_result)
    /\ ~EndedWithDecodeFailure(ctl_result)
    /\ ~EndedWithDecodeFailure(run_result)

(***************************************************************************)
(* C11. execution_count starts at 0, is incremented once for each accepted *)
(* execute_request (one whose content.code is a string) and is changed by  *)
(* no other request: it is the number of accepted execute_requests that    *)
(* were dispatched, and the execute_input, the reply and every             *)
(* execute_result of the n-th accepted execute_request carry               *)
(* execution_count = n. The code breaks it: the increment comes before the *)
(* code is looked for (shell_processor.rs 134, server.rs 287), so an       *)
(* execute_request without a code string is counted too.                   *)
(***************************************************************************)
(* the request in hand was dispatched: its busy status went out            *)
Dispatched == Requested /\ Len(seg) >= 2 /\ Sent(seg[2], "iopub")
CarriesCount(e) ==
    /\ e.ev \in {"send", "send_failed"}
    /\ \/ IsType(e.msg, s_execute_input)
       \/ IsType(e.msg, s_execute_reply)
       \/ IsType(e.msg, s_execute_result)
(* the accepted execute_requests dispatched so far                         *)
AcceptedDispatched == IF Accepted /\ ~Dispatched THEN n_accepted - 1 ELSE n_accepted

C11_ExecutionCounter ==
    /\ n_shell = 0 => execution_count = 0
    /\ execution_count = AcceptedDispatched
    /\ \A i \in DOMAIN seg :
         CarriesCount(seg[i]) =>
           Index(seg[i].msg.content, s_execution_count) = JNum(n_accepted)

(***************************************************************************)
(* C19. Every message the server sends carries as parent_header the header *)
(* of the request that caused it: a message sent after a request was       *)
(* received, on the shell or on the control side, has the header of that   *)
(* request as parent_header; only the statuses starting and idle that are  *)
(* published before any request have an empty parent_header.               *)
(***************************************************************************)
IsSend(e) == e.ev \in {"send", "send_failed"}
(* the parent_header the messages of the events log must carry             *)
CausedBy(log) == IF log # <<>> /\ log[1].ev = "recv" THEN log[1].msg.header ELSE EmptyObj
ParentsOf(log) == { log[i].msg.parent_header : i \in { j \in DOMAIN log : IsSend(log[j]) } }

C19_ParentHeader ==
    /\ ParentsOf(seg) \subseteq {CausedBy(seg)}
    /\ ParentsOf(ctl_log) \subseteq {CausedBy(ctl_log)}
    /\ ~Requested =>
          \A i \in DOMAIN seg :
              IsSend(seg[i]) => IsStatus(seg[i].msg, s_starting) \/ IsStatus(seg[i].msg, s_idle)

(***************************************************************************)
(* C20. At startup the first two messages published are the status         *)
(* starting and then the status idle, both with an empty parent_header,    *)
(* and both are published before the first shell request is received.      *)
(***************************************************************************)
StartupKinds == <<JStr(s_starting), JStr(s_idle)>>
StartupPublished ==
    /\ PubKinds = StartupKinds
    /\ \A i \in DOMAIN Pubs : Pubs[i].msg.parent_header = EmptyObj
FirstShellRecv == n_shell = 0 /\ n_shell' = 1

C20_StartupStatuses ==
    /\ [](n_shell = 0 => IsPrefix(PubKinds, StartupKinds))
    /\ [][FirstShellRecv => StartupPublished]_vars

(***************************************************************************)
(* What a codec run shows.                                                 *)
(***************************************************************************)
(* the frames in flight are those HBSocket::send made of out_msg           *)
Encoded == upc \in {"wire", "recvd", "derived"} /\ ~peer
(* the frames in flight were received                                      *)
Received_ == upc \in {"recvd", "derived"}
NoDelimiterId(m) == \A i \in DOMAIN m.zmq_ids : m.zmq_ids[i] # DELIMITER
(* the number of routing ids of the message that was sent                  *)
K == Len(out_msg.zmq_ids)

(***************************************************************************)
(* C12. Round trip: for a message whose routing ids do not contain the     *)
(* delimiter frame, decoding the frames made by encoding it succeeds and   *)
(* gives back its routing ids, header, parent_header, metadata and content *)
(* exactly; and the signature frame of the encoding is digest applied to   *)
(* the four serialized documents in the order header, parent_header,       *)
(* metadata, content.                                                      *)
(***************************************************************************)
C12_RoundTrip ==
    /\ (Encoded /\ Received_ /\ NoDelimiterId(out_msg)) =>
         /\ decoded.v.ok
         /\ decoded.v.v.zmq_ids = out_msg.zmq_ids
         /\ decoded.v.v.header = out_msg.header
         /\ decoded.v.v.parent_header = out_msg.parent_header
         /\ decoded.v.v.metadata = out_msg.metadata
         /\ decoded.v.v.content = out_msg.content
    /\ Encoded =>
         wire[K + 2] = digest(digester, to_vec(out_msg.header), to_vec(out_msg.parent_header),
                              to_vec(out_msg.metadata), to_vec(out_msg.content))

(* a signed message with two routing ids and a nested content has made the *)
(* round trip                                                              *)
C12_Witness ==
    /\ Encoded /\ upc = "recvd"
    /\ K = 2 /\ NoDelimiterId(out_msg)
    /\ digester.d = "HmacSha256"
    /\ decoded.v.ok
    /\ Index(decoded.v.v.content, s_data) = Obj1(s_text_plain, JArr(<<>>))

(***************************************************************************)
(* C13. Encoding a message with k routing ids gives k + 6 frames: the k    *)
(* routing ids in their order, the delimiter <IDS|MSG>, the signature, then *)
(* header, parent_header, metadata and content; the signature frame is     *)
(* empty when no signature scheme is configured.                           *)
(***************************************************************************)
C13_FrameLayout ==
    Encoded =>
      /\ Len(wire) = K + 6
      /\ SubSeq(wire, 1, K) = out_msg.zmq_ids
      /\ wire[K + 1] = Raw(s_ids_msg)
      /\ wire[K + 3] = to_vec(out_msg.header)
      /\ wire[K + 4] = to_vec(out_msg.parent_header)
      /\ wire[K + 5] = to_vec(out_msg.metadata)
      /\ wire[K + 6] = to_vec(out_msg.content)
      /\ Len(ci.signature_scheme) = 0 => wire[K + 2] = EmptyBytes

(* an unsigned message with the routing ids hop, peer is on the wire       *)
C13_Witness ==
    /\ Encoded /\ upc = "wire"
    /\ out_msg.zmq_ids = <<Raw(s_hop), Raw(s_peer)>>
    /\ Len(ci.signature_scheme) = 0
    /\ Len(wire) = 8

(***************************************************************************)
(* C14. Decode failure coverage. Frames with no delimiter fail with        *)
(* MalformedMessage "no delimiter found"; frames that end after the        *)
(* delimiter before one of signature, header, parent_header, metadata,     *)
(* content fail with the MalformedMessage that names the first missing     *)
(* part; frames in which a present document frame is no valid JSON fail    *)
(* with a parse error; in none of these cases a message is returned. (A    *)
(* present frame comes before a missing one: frames that are cut and hold  *)
(* an invalid document are a case of the parse error.)                     *)
(***************************************************************************)
(* the first frame equal to the delimiter, 0 when there is none            *)
FirstDelimiter(w) ==
    IF \E i \in DOMAIN w : w[i] = DELIMITER
    THEN CHOOSE i \in DOMAIN w : w[i] = DELIMITER /\ \A j \in 1..(i - 1) : w[j] # DELIMITER
    ELSE 0
FramesAfter(w) == Len(w) - FirstDelimiter(w)
(* a document frame that is there and is no JSON text                      *)
InvalidDocument(w) ==
    \E j \in 2..5 :
      /\ FirstDelimiter(w) + j <= Len(w)
      /\ ~from_slice(w[FirstDelimiter(w) + j]).ok
MissingPart ==
    <<"no signature", "no header", "no parent header", "no metadata", "no content">>

C15_SignatureNotVerified ==
    Received_ =>
      /\ (FirstDelimiter(wire) > 0 /\ FramesAfter(wire) >= 1) =>
           \A sig \in ForgedSignatures \cup {DELIMITER} :
             try_from([wire EXCEPT ![FirstDelimiter(wire) + 1] = sig]) = decoded.v
      /\ (peer /\ NoDelimiterId(out_msg)
            /\ \E sig \in ForgedSignatures :
                 wire = [to_zmq_message(out_msg, digester) EXCEPT ![K + 2] = sig]) =>
           decoded.v = Ok(out_msg)

(* the frames of a signed message were received with an empty signature,   *)
(* and decoded                                                             *)
C15_Witness ==
    /\ Received_ /\ peer
    /\ digester.d = "HmacSha256"
    /\ Len(wire) = K + 6
    /\ FirstDelimiter(wire) = K + 1
    /\ wire[K + 2] = EmptyBytes
    /\ decoded.v = Ok(out_msg)

(***************************************************************************)
(* C17. digest is deterministic and leaves the Digester unchanged: after   *)
(* any number of messages sent with one Digester, the Digester is what     *)
(* Digester::new made of the ConnectionInfo, and the signature of a sent   *)
(* message is the signature a Digester just made of the same               *)
(* ConnectionInfo gives for the same four buffers; the no-op digester      *)
(* gives the empty signature.                                              *)
(***************************************************************************)
C17_DigestDeterministic ==
    upc \in {"msg", "wire", "recvd", "derived"} =>
        /\ digester = Digester_new(ci).v
        /\ Encoded =>
              /\ wire[K + 2] = digest(Digester_new(ci).v, to_vec(out_msg.header),
                                      to_vec(out_msg.parent_header), to_vec(out_msg.metadata),
                                      to_vec(out_msg.content))
              /\ Len(ci.signature_scheme) = 0 => wire[K + 2] = EmptyBytes
              /\ ci.signature_scheme = s_hmac_sha256 =>
                    wire[K + 2] = <<[t |-> "hex", key |-> ci.key,
                                     fed |-> to_vec(out_msg.header)
                                             \o to_vec(out_msg.parent_header)
                                             \o to_vec(out_msg.metadata)
                                             \o to_vec(out_msg.content)]>>

C17_Witness ==
    /\ Encoded
    /\ n_sent = 2
    /\ digester.d = "HmacSha256"
    /\ wire[K + 2] # EmptyBytes

(***************************************************************************)
(* C18. Reply derivation: for a decoded trigger whose msg_type is          *)
(* X_request the reply has the msg_type X_reply, the routing ids of the    *)
(* trigger, the header of the trigger as parent_header, and empty metadata *)
(* and content; new_message and new_derived_message give no routing ids,   *)
(* and new_derived_message gives the header of the trigger as              *)
(* parent_header.                                                          *)
(***************************************************************************)
ends_with(s, p) == Len(s) >= Len(p) /\ SubSeq(s, Len(s) - Len(p) + 1, Len(s)) = p
(* X_reply for the name X_request                                          *)
ReplyType(name) == SubSeq(name, 1, Len(name) - Len(s_suffix_request)) \o s_suffix_reply
IsRequest(m) ==
    /\ MsgTypeOf(m).k = "str"
    /\ ends_with(MsgTypeOf(m).s, s_suffix_request)

C18_ReplyDerivation ==
    upc = "derived" =>
        LET trigger == decoded.v.v
            reply   == derived.v.reply
        IN /\ IsRequest(trigger) =>
                /\ MsgTypeOf(reply) = JStr(ReplyType(MsgTypeOf(trigger).s))
                /\ reply.zmq_ids = trigger.zmq_ids
                /\ reply.parent_header = trigger.header
                /\ reply.metadata = EmptyObj
                /\ reply.content = EmptyObj
           /\ derived.v.new.zmq_ids = <<>>
           /\ derived.v.derived.zmq_ids = <<>>
           /\ derived.v.derived.parent_header = trigger.header

(***************************************************************************)
(* What a construction shows.                                              *)
(***************************************************************************)
KnownScheme == Len(ci.signature_scheme) = 0 \/ ci.signature_scheme = s_hmac_sha256
Published == seg # <<>> \/ ctl_log # <<>> \/ pc # "init" \/ ctl_pc # "init"

(* C16: the construction of the digester succeeds for exactly the empty    *)
(* scheme name, which gives the no-op digester, and "hmac-sha256", which   *)
(* gives the keyed one; for any other name JuServer::new returns           *)
(* UnknownDigest(name), with no endpoint bound, no heartbeat task spawned  *)
(* and nothing published.                                                  *)
C16_UnknownDigest ==
    upc # "new" =>
        /\ Len(ci.signature_scheme) = 0 => digester = DigesterNone
        /\ ci.signature_scheme = s_hmac_sha256 =>
              digester = [d |-> "HmacSha256", hmac |-> [key |-> ci.key, fed |-> <<>>]]
        /\ KnownScheme => upc = "returned" \/ new_result = None
        /\ KnownScheme /\ upc = "returned" /\ ~new_result.v.ok =>
              new_result.v.e.kind # "UnknownDigest"
        /\ ~KnownScheme =>
              /\ upc = "returned"
              /\ new_result = Some(Err(JuError("UnknownDigest", ci.signature_scheme)))
              /\ bound = {}
              /\ ~hb_task
              /\ ~Published

C16_Witness ==
    /\ arch = "new"
    /\ upc = "returned"
    /\ ci.signature_scheme = s_HMAC_SHA256
    /\ new_result = Some(Err(JuError("UnknownDigest", s_HMAC_SHA256)))

(***************************************************************************)
(* What a process run shows.                                               *)
(***************************************************************************)
AllPorts == {ci.hb_port, ci.shell_port, ci.control_port, ci.iopub_port}
(* the server run in hand was started because the run before it ended      *)
(* with restart = true                                                     *)
RestartRun == n_runs >= 2 /\ app_pc = "start"
Constructed == upc = "returned" \/ pc \in {"init", "loop", "done"}

(* C21: when a server run ends with restart = true the process loop starts *)
(* a new run, which binds its four channels again and serves requests: the *)
(* construction of that run does not fail on an endpoint the process still *)
(* holds, and while it serves the four endpoints are bound to it or its    *)
(* heartbeat has ended. When a run ends with restart = false or with an    *)
(* error, the process loop ends and starts no other run.                   *)
C21_RestartLoop ==
    /\ [](RestartRun /\ Constructed /\ ~new_result.v.ok => new_result.v.e # AddrInUse)
    /\ [](RestartRun /\ pc = "loop" => AllPorts \ {ci.hb_port} \subseteq bound)
    /\ [][app_pc = "start" /\ app_pc' # "start" =>
            IF StartResult.v = Ok(TRUE) THEN app_pc' = "loop" ELSE app_pc' = "exited"]_vars
    /\ [][app_pc = "exited" => UNCHANGED <<app_pc, n_runs, upc, pc>>]_vars
    /\ [][n_runs' # n_runs => n_runs = 0 \/ run_result = Some(Ok(TRUE))]_vars

(***************************************************************************)
(* C22. A control message whose msg_type is not shutdown_request, or whose *)
(* header has no string msg_type, gets no reply and does not end the       *)
(* control side: nothing is sent for it, the run goes on with a receive on *)
(* the control socket pending; and a shutdown_request that comes after it  *)
(* is answered and ends the run.                                           *)
(***************************************************************************)
ControlReceived == n_ctl' = n_ctl + 1
OtherControl(log) ==
    log # <<>> /\ log[1].ev = "recv" /\ ~IsType(log[1].msg, s_shutdown_request)

C22_OtherControlMessages ==
    /\ [][ControlReceived /\ OtherControl(ctl_log') =>
            /\ \A i \in DOMAIN ctl_log' : ~IsSend(ctl_log'[i])
            /\ ctl_replies' = ctl_replies
            /\ pc' = "loop" /\ run_result' = None
            /\ futs'.control = 1]_vars
    /\ [][ControlReceived /\ OtherControl(ctl_log) /\ ShutdownIn(ctl_log') =>
            /\ Attempted(ctl_log'[2], "control")
            /\ IsType(ctl_log'[2].msg, s_shutdown_reply)
            /\ pc' = "done"
            /\ ~IsFailure(ctl_log'[2]) =>
                  run_result' = Some(Ok(RestartOf(ctl_log'[1].msg)))]_vars

(* after a control message that is no shutdown_request, a shutdown_request *)
(* was answered and ended the run                                          *)
C22_Witness ==
    /\ arch = "fanin"
    /\ n_ctl = 2
    /\ ShutdownIn(ctl_log)
    /\ ctl_replies = 1
    /\ run_result = Some(Ok(TRUE))

(***************************************************************************)
(* C23. On a shutdown_request the control side acts in a fixed order: the  *)
(* reply is sent on the control channel first; cancellation is signalled   *)
(* to the processor only after the reply was sent; the control side ends   *)
(* with or after the signal; no control message is handled after the       *)
(* shutdown_request; and the result of the run is the restart decision of  *)
(* that request.                                                           *)
(***************************************************************************)
ShutdownReplied ==
    ShutdownIn(ctl_log) /\ Len(ctl_log) >= 2 /\ Sent(ctl_log[2], "control")
ControlEnded == (arch = "tasks" /\ ctl_pc = "done") \/ (arch = "fanin" /\ pc = "done")
(* what the control side returned                                          *)
ControlResult == IF arch = "tasks" THEN ctl_result ELSE run_result
ProcessorFailed == arch = "tasks" /\ sp_result.some /\ ~sp_result.v.ok

C23_ShutdownOrder ==
    /\ [][(notify' /\ ~notify) =>
            /\ ShutdownReplied
            /\ ~ControlEnded
            /\ ControlEnded']_vars
    /\ [](ShutdownIn(ctl_log) /\ ControlEnded /\ ControlResult.v.ok =>
            /\ ShutdownReplied
            /\ ControlResult = Some(Ok(RestartOf(ctl_log[1].msg))))
    /\ [][ShutdownIn(ctl_log) => (n_ctl' = n_ctl /\ ctl_log' = ctl_log)]_vars
    /\ [](ShutdownReplied /\ run_result.some /\ ~ProcessorFailed =>
            run_result = Some(Ok(RestartOf(ctl_log[1].msg))))

(* the processor was cancelled after the reply, and the run ended with the *)
(* restart decision                                                        *)
C23_Witness ==
    /\ arch = "tasks"
    /\ ShutdownReplied
    /\ sp_result = Some(Ok("unit"))
    /\ run_result = Some(Ok(TRUE))

(***************************************************************************)
(* C24. The heartbeat loop is isolated from the other loops: what it sends *)
(* back is the message it received, unmodified; a turn of it can be taken  *)
(* whenever the task lives, whatever the shell side does; a turn of it,    *)
(* also the one that ends it with a transport error, changes nothing of    *)
(* the server, which goes on and returns what it would have returned; a    *)
(* transport error ends the task, and within a run it is not started       *)
(* again.                                                                  *)
(***************************************************************************)
InRun == app_pc = "start" /\ pc \in {"init", "loop", "done"}
HeartbeatTurn == hb_log' # hb_log

C24_HeartbeatIsolated ==
    /\ [](\A i \in DOMAIN hb_log :
            /\ hb_log[i].sent.some => hb_log[i].sent = Some(hb_log[i].recv.v)
            /\ hb_log[i].running <=> hb_log[i].sent.some
            /\ (i < Len(hb_log) /\ ~hb_log[i].running) => n_runs >= 2)
    /\ []((hb_task /\ app_pc # "off" /\ Len(hb_log) < MaxBeats) => ENABLED HBSocket_run)
    /\ [][HeartbeatTurn => UNCHANGED <<server, upc, new_result, app_pc, n_runs>>]_vars
    /\ [][(InRun /\ ~hb_task) => ~hb_task']_vars
    /\ [](InRun /\ ~hb_task => ~Last(hb_log).running)

(* the heartbeat has ended with a transport error, and the run went on to  *)
(* serve a shell request and to end with the restart decision              *)
C24_Witness ==
    /\ InRun /\ n_runs = 1
    /\ ~hb_task
    /\ Len(hb_log) = 1
    /\ Requested /\ PubKinds = <<JStr(s_busy), JStr(s_idle)>>
    /\ run_result = Some(Ok(FALSE))

(***************************************************************************)
(* C25. A transport failure is fatal to the shell side: when a receive on  *)
(* the shell channel or a send on the shell or the publish channel has     *)
(* failed while a request was processed, a reply or a notification inside  *)
(* the dispatch included, the shell loop has ended and the error is the    *)
(* result of the run.                                                      *)
(***************************************************************************)
TransportFailed(e) ==
    \/ e.ev = "send_failed" /\ e.chan \in {"shell", "iopub"}
    \/ e.ev = "recv_failed" /\ e.chan = "shell" /\ e.e = ZmqError
ShellResult == IF arch = "tasks" THEN sp_result ELSE run_result

C25_TransportFatal ==
    (\E i \in DOMAIN seg : TransportFailed(seg[i])) =>
        /\ pc = "done"
        /\ ShellResult = Some(Err(ZmqError))
        /\ run_result.some => run_result = Some(Err(ZmqError))

(***************************************************************************)
(* C26. For an execute_request whose evaluation has returned, the reply on *)
(* the shell channel is attempted after the return of the evaluation and   *)
(* before any execute_result or error notification of the request: such a  *)
(* notification is published only after the reply was sent. The reply is   *)
(* "ok" for a success and "error" for an error; a success with no result   *)
(* value is replied to with "ok", and no execute_result is published.      *)
(***************************************************************************)
EvalDoneAt == {i \in DOMAIN seg : seg[i].ev = "eval_done"}
RepliesAt == {i \in DOMAIN seg : Attempted(seg[i], "shell")}
OutcomesAt ==
    {i \in DOMAIN seg :
        /\ Attempted(seg[i], "iopub")
        /\ IsType(seg[i].msg, s_execute_result) \/ IsType(seg[i].msg, s_error)}
ReplyStatus(tag) == IF tag = "Success" THEN JStr(s_ok) ELSE JStr(s_error)

C26_ReplyBeforeResults ==
    Accepted =>
        /\ \A r \in RepliesAt : \E d \in EvalDoneAt : d < r
        /\ \A o \in OutcomesAt : \E r \in RepliesAt : r < o /\ Sent(seg[r], "shell")
        /\ EvalDoneAt # {} =>
              /\ Cardinality(RepliesAt) = 1
              /\ \A r \in RepliesAt :
                    /\ IsType(seg[r].msg, s_execute_reply)
                    /\ Index(seg[r].msg.content, s_status)
                         = ReplyStatus(EvalDone[1].eval_result.tag)
              /\ EvalDone[1].eval_result = Success(<<>>) => OutcomesAt = {}

(* a success with no result value was replied to with "ok"                 *)
C26_Witness ==
    /\ Accepted /\ NoFailure
    /\ EvalDoneAt # {}
    /\ EvalDone[1].eval_result = Success(<<>>)
    /\ \E r \in RepliesAt : Index(seg[r].msg.content, s_status) = JStr(s_ok)
    /\ PubKinds = <<JStr(s_busy), JStr(s_execute_input), JStr(s_idle)>>

(***************************************************************************)
(* C27. new_reply_message replaces only a trailing _request of the         *)
(* trigger's msg_type by _reply: the msg_type of the reply is the          *)
(* trigger's with its suffix _request replaced, and the trigger's msg_type *)
(* as it is when it does not end in _request; a _request that is not at    *)
(* the end of the name stays.                                              *)
(***************************************************************************)
SuffixReplaced(name) == IF ends_with(name, s_suffix_request) THEN ReplyType(name) ELSE name

C27_TrailingSuffixOnly ==
    (upc = "derived" /\ MsgTypeOf(decoded.v.v).k = "str") =>
        MsgTypeOf(derived.v.reply) = JStr(SuffixReplaced(MsgTypeOf(decoded.v.v).s))

(***************************************************************************)
(* C28. Decoding splits the frames at the first delimiter frame: the       *)
(* routing ids of the decoded message are exactly the frames before the    *)
(* first frame equal to <IDS|MSG>, in order (possibly none), the five       *)
(* frames right after it are read as signature, header, parent_header,     *)
(* metadata, content, and any frames after the content frame (also a       *)
(* second delimiter) are ignored without error.                            *)
(***************************************************************************)
C28_SplitAtFirstDelimiter ==
    (Received_ /\ FirstDelimiter(wire) > 0 /\ FramesAfter(wire) >= 5
       /\ ~InvalidDocument(wire)) =>
      LET d == FirstDelimiter(wire) IN
      /\ decoded.v.ok
      /\ decoded.v.v.zmq_ids = SubSeq(wire, 1, d - 1)
      /\ Ok(decoded.v.v.header) = from_slice(wire[d + 2])
      /\ Ok(decoded.v.v.parent_header) = from_slice(wire[d + 3])
      /\ Ok(decoded.v.v.metadata) = from_slice(wire[d + 4])
      /\ Ok(decoded.v.v.content) = from_slice(wire[d + 5])

(* frames with a second delimiter and one more frame after the content     *)
(* were decoded to the message that was sent                               *)
C28_Witness ==
    /\ Received_ /\ peer
    /\ K = 2
    /\ Len(wire) = K + 8
    /\ FirstDelimiter(wire) = K + 1
    /\ wire[K + 7] = DELIMITER
    /\ decoded.v = Ok(out_msg)

(***************************************************************************)
(* C29. Each request on the shell channel gets at most one reply: a        *)
(* kernel_info_request, an is_complete_request and an execute_request with *)
(* a string code each get exactly one reply, sent on the shell channel     *)
(* after that request's busy status and before its idle status, carrying   *)
(* that request's routing ids and header as parent_header; no reply is     *)
(* ever sent that no request caused. (A send the transport has failed is   *)
(* counted as an attempt; "exactly one" is stated for a request whose idle *)
(* status was published or whose run has ended, without a failure of the   *)
(* transport on the shell side.)                                           *)
(***************************************************************************)
BusyAt == {i \in DOMAIN seg : Sent(seg[i], "iopub") /\ IsStatus(seg[i].msg, s_busy)}
IdleAt == {i \in DOMAIN seg : Attempted(seg[i], "iopub") /\ IsStatus(seg[i].msg, s_idle)}
Replied(m) ==
    \/ IsType(m, s_kernel_info_request)
    \/ IsType(m, s_is_complete_request)
    \/ IsType(m, s_execute_request) /\ Index(m.content, s_code).k = "str"

C29_OneReplyPerRequest ==
    /\ Cardinality(RepliesAt) <= 1
    /\ ~Requested => RepliesAt = {}
    /\ \A r \in RepliesAt :
          /\ Replied(Request)
          /\ seg[r].msg.zmq_ids = Request.zmq_ids
          /\ seg[r].msg.parent_header = Request.header
          /\ MsgTypeOf(seg[r].msg) = JStr(ReplyType(MsgTypeOf(Request).s))
          /\ \E b \in BusyAt : b < r
          /\ \A i \in IdleAt : r < i
    /\ (Requested /\ Replied(Request) /\ NoFailure /\ (IdleAt # {} \/ pc = "done")) =>
          \E r \in RepliesAt : Sent(seg[r], "shell")

(***************************************************************************)
(* C30. Single ownership of sockets in the fan-in server loop: whenever    *)
(* JuServer::run sends on the shell or control socket, or registers a new  *)
(* receive on it, no pending receive future holds that socket's lock, so   *)
(* every try_lock in run succeeds and the run never ends with a            *)
(* TryLockError. (The arm of a received message runs with that receive     *)
(* taken out of the future set; the arm of a finished evaluation runs      *)
(* with no shell receive in it, none being registered while an evaluation  *)
(* is pending.)                                                            *)
(***************************************************************************)
TryLockFailed(log) ==
    \E i \in DOMAIN log : log[i].ev = "error" /\ log[i].e.kind = "TryLockError"

C30_SingleOwner ==
    arch = "fanin" =>
        /\ run_result # Some(Err(TryLockError))
        /\ ~TryLockFailed(seg) /\ ~TryLockFailed(ctl_log)
        /\ futs.shell + futs.exec <= 1
        /\ futs.control <= 1
        /\ pc = "loop" => (futs.shell + futs.exec = 1 /\ futs.control = 1)

(* the reply of an evaluated request was sent on the shell socket and a    *)
(* control message was handled, and both receives are registered again     *)
C30_Witness ==
    /\ arch = "fanin" /\ pc = "loop"
    /\ futs.shell = 1 /\ futs.control = 1
    /\ EvalDoneAt # {}
    /\ \E r \in RepliesAt : Sent(seg[r], "shell")
    /\ ctl_log # <<>>

(***************************************************************************)
(* C31. In the fan-in server loop, every time JuServer::run waits for the  *)
(* next event the set of pending futures holds exactly one control receive *)
(* and exactly one of a shell receive or an in-flight evaluation (never    *)
(* both, never two of a kind); hence the set is never empty, futs.next()   *)
(* never gives None, and the run never ends with the error "No more        *)
(* futures to process".                                                    *)
(***************************************************************************)
AwaitsNext == arch = "fanin" /\ pc = "loop"

C31_FutureSet ==
    /\ AwaitsNext =>
          /\ futs.control = 1
          /\ <<futs.shell, futs.exec>> \in {<<1, 0>>, <<0, 1>>}
          /\ "None" \notin FuturesNext(futs)
          /\ "control" \in FuturesNext(futs)
    /\ run_result # Some(Err(NoMoreFutures))

(* the loop waits with an evaluation and a control receive pending, after  *)
(* a control message was handled during the evaluation                     *)
C31_Witness ==
    /\ AwaitsNext
    /\ futs = [shell |-> 0, control |-> 1, exec |-> 1]
    /\ n_ctl = 1 /\ ctl_log # <<>>
    /\ FuturesNext(futs) = {"control", "exec"}

====
